---------------------------- MODULE Spec2Model ----------------------------
(***************************************************************************)
(* Domain-hunter: the scoring and valuation engine (domain_scorer.py), the *)
(* record it reads (database.py, get_domain_details) and the seeded mock   *)
(* generators of the analyzers (content_analyzer.py, seo_analyzer.py).     *)
(*                                                                         *)
(* Numbers.  Python floats are modelled by exact rationals <<n, d>> with   *)
(* d > 0 in lowest terms.  math.log10 is applied only to powers of ten     *)
(* (every count drawn below has the form 10^k - 1), where it is exact.     *)
(*                                                                         *)
(* Dictionaries.  A Python dict is [keys |-> the keys it has, val |-> a    *)
(* function on the keys whose value is not None].  A key in keys but not   *)
(* in DOMAIN val holds None.  A weight dict (all values numeric) is just a *)
(* function from the keys it has to rationals.                             *)
(***************************************************************************)
EXTENDS Integers, Sequences, FiniteSets, TLC

(***************************************************************************)
(* Bounds of the model.                                                    *)
(***************************************************************************)
\* counts (backlinks, referring domains, traffic) are 10^k - 1, k <= MaxDigits
MaxDigits == 7
\* the positive weight value offered to update_weights and as custom_weights
MaxWeight == 2
\* update_weights calls made while a score is being computed
MaxUpdates == 2
MaxHash == 1
RngPeriod == 101
MaxSwitches == 2
MaxGenerations == 2

(***************************************************************************)
(* Exact rational arithmetic standing for float arithmetic.                *)
(***************************************************************************)
RECURSIVE Gcd(_, _)
Gcd(a, b) == IF b = 0 THEN a ELSE Gcd(b, a % b)

Abs(n) == IF n < 0 THEN -n ELSE n

Rat(n, d) ==
    LET s == IF d < 0 THEN -1 ELSE 1
        g == Gcd(Abs(n), Abs(d))
    IN  <<(s * n) \div g, (s * d) \div g>>

R(n) == <<n, 1>>

RAdd(a, b) == Rat(a[1] * b[2] + b[1] * a[2], a[2] * b[2])
RSub(a, b) == Rat(a[1] * b[2] - b[1] * a[2], a[2] * b[2])
RMul(a, b) == Rat(a[1] * b[1], a[2] * b[2])
\* a / b for b # 0
RDiv(a, b) == Rat(a[1] * b[2], a[2] * b[1])
RLt(a, b) == a[1] * b[2] < b[1] * a[2]
RLe(a, b) == a[1] * b[2] <= b[1] * a[2]
\* Python's max(a, b) / min(a, b): the first argument wins a tie
RMax(a, b) == IF RLt(a, b) THEN b ELSE a
RMin(a, b) == IF RLt(b, a) THEN b ELSE a

RECURSIVE Pow10(_)
Pow10(k) == IF k = 0 THEN 1 ELSE 10 * Pow10(k - 1)

\* math.log10 on a power of ten
RECURSIVE Log10(_)
Log10(n) == IF n <= 1 THEN 0 ELSE 1 + Log10(n \div 10)

(***************************************************************************)
(* Python dict access.                                                     *)
(***************************************************************************)
\* d[k] is None
IsNone(d, k) == k \in d.keys /\ k \notin DOMAIN d.val
\* d.get(k, default) when the result is not None
Get(d, k, default) == IF k \in DOMAIN d.val THEN d.val[k] ELSE default
\* truthiness of d.get(k, 0) for a numeric field: not None and not zero
Truthy(d, k) == k \in DOMAIN d.val /\ d.val[k] # 0


(***************************************************************************)
(* database.py: the three tables the scorer reads, and the joined record.  *)
(* A stored row is a function from its non-NULL columns to their values.   *)
(***************************************************************************)
SeoCols ==
    {"domain_authority", "page_authority", "backlinks", "referring_domains",
     "organic_traffic", "trust_flow", "citation_flow", "spam_score"}

ContentCols == {"niche", "content_quality", "spam_score", "brandability_score"}

\* the columns of content_analysis that get_domain_details selects
ContentSelected == {"niche", "content_quality", "brandability_score"}

\* the keys of the record that the scorer reads
DetailKeys == {"name"} \cup SeoCols \cup ContentSelected

\* metrics.get(col) for every column: a key missing from the dict is stored NULL
StoreRow(cols, dict) == [c \in (cols \cap DOMAIN dict) |-> dict[c]]

NoDetails == [found |-> FALSE]

\* the join selecting c.spam_score where it selects s.spam_score
get_domain_details_page_spam(d, domain_id) ==
    IF domain_id \notin DOMAIN d.domains THEN NoDetails
    ELSE LET s == IF domain_id \in DOMAIN d.seo THEN d.seo[domain_id] ELSE << >>
             c == IF domain_id \in DOMAIN d.content THEN d.content[domain_id] ELSE << >>
             sel == ContentSelected \cup {"spam_score"}
             has == {"name"} \cup (DOMAIN s \ {"spam_score"}) \cup (DOMAIN c \cap sel)
         IN  [found |-> TRUE,
              keys |-> DetailKeys,
              val |-> [k \in has |->
                         IF k = "name" THEN d.domains[domain_id]
                         ELSE IF k \in sel THEN c[k] ELSE s[k]]]

\* get_domain_details: domains LEFT JOIN seo_metrics LEFT JOIN content_analysis
get_domain_details(d, domain_id) ==
    IF domain_id \notin DOMAIN d.domains THEN NoDetails
    ELSE LET s == IF domain_id \in DOMAIN d.seo THEN d.seo[domain_id] ELSE << >>
             c == IF domain_id \in DOMAIN d.content THEN d.content[domain_id] ELSE << >>
             has == {"name"} \cup DOMAIN s \cup (DOMAIN c \cap ContentSelected)
         IN  [found |-> TRUE,
              keys |-> DetailKeys,
              val |-> [k \in has |->
                         IF k = "name" THEN d.domains[domain_id]
                         ELSE IF k \in SeoCols THEN s[k] ELSE c[k]]]

(***************************************************************************)
(* domain_scorer.py: the four sub-scores.  An exception inside a sub-score *)
(* is caught there and turns the whole sub-score into 0.0.                 *)
(***************************************************************************)
\* the contribution without its min(100, .)
LogContribution_uncapped(n, factor, weight) ==
    RMul(RDiv(R(Log10(n + 1) * factor), R(100)), R(weight))

\* min(100, math.log10(n + 1) * factor) / 100 * weight
LogContribution(n, factor, weight) ==
    RMul(RDiv(RMin(R(100), R(Log10(n + 1) * factor)), R(100)), R(weight))

\* `backlinks > 0` and its two siblings raise TypeError on None
SeoRaises(dd) ==
    \/ IsNone(dd, "backlinks")
    \/ IsNone(dd, "referring_domains")
    \/ IsNone(dd, "organic_traffic")

_calculate_seo_score(dd) ==
    IF SeoRaises(dd) THEN R(0)
    ELSE LET da == IF Truthy(dd, "domain_authority")
                   THEN RMul(RDiv(R(dd.val["domain_authority"]), R(100)), R(30))
                   ELSE R(0)
             bl == IF Get(dd, "backlinks", 0) > 0
                   THEN LogContribution(dd.val["backlinks"], 25, 25) ELSE R(0)
             rd == IF Get(dd, "referring_domains", 0) > 0
                   THEN LogContribution(dd.val["referring_domains"], 30, 20) ELSE R(0)
             tf == IF Truthy(dd, "trust_flow")
                   THEN RMul(RDiv(R(dd.val["trust_flow"]), R(100)), R(15))
                   ELSE R(0)
             ot == IF Get(dd, "organic_traffic", 0) > 0
                   THEN LogContribution(dd.val["organic_traffic"], 15, 10) ELSE R(0)
         IN  RAdd(RAdd(RAdd(RAdd(da, bl), rd), tf), ot)

high_value_niches == {"Technology", "Finance", "Health", "Business", "Education"}

\* the content score adding abs(compound) * 10 whatever the sign
_calculate_content_score_abs(dd) ==
    LET cq == IF Truthy(dd, "content_quality")
              THEN RMul(RDiv(R(dd.val["content_quality"]), R(100)), R(40))
              ELSE R(0)
        niche == Get(dd, "niche", "Unknown")
        nb == IF IsNone(dd, "niche") \/ niche = "" \/ niche = "Unknown" THEN R(0)
              ELSE IF niche \in high_value_niches THEN R(30) ELSE R(20)
        rb == IF Truthy(dd, "readability")
              THEN RMul(RDiv(R(dd.val["readability"]), R(100)), R(20))
              ELSE R(0)
        sn == IF "sentiment" \in DOMAIN dd.val
              THEN RMul(RMax(dd.val["sentiment"], RSub(R(0), dd.val["sentiment"])),
                        R(10))
              ELSE R(0)
    IN  RAdd(RAdd(RAdd(cq, nb), rb), sn)

\* the record holds the compound sentiment (a rational) under "sentiment"
_calculate_content_score(dd) ==
    LET cq == IF Truthy(dd, "content_quality")
              THEN RMul(RDiv(R(dd.val["content_quality"]), R(100)), R(40))
              ELSE R(0)
        niche == Get(dd, "niche", "Unknown")
        nb == IF IsNone(dd, "niche") \/ niche = "" \/ niche = "Unknown" THEN R(0)
              ELSE IF niche \in high_value_niches THEN R(30) ELSE R(20)
        rb == IF Truthy(dd, "readability")
              THEN RMul(RDiv(R(dd.val["readability"]), R(100)), R(20))
              ELSE R(0)
        sn == IF "sentiment" \in DOMAIN dd.val /\ RLt(R(0), dd.val["sentiment"])
              THEN RMul(dd.val["sentiment"], R(10))
              ELSE R(0)
    IN  RAdd(RAdd(RAdd(cq, nb), rb), sn)

_calculate_brandability_score(dd) ==
    IF Truthy(dd, "brandability_score") THEN R(dd.val["brandability_score"]) ELSE R(0)

\* the penalty with `if` in place of `elif`: both ratio tiers add up
_calculate_spam_penalty_stacked(dd) ==
    LET cs == IF Truthy(dd, "spam_score") THEN R(dd.val["spam_score"]) ELSE R(0)
        ss == IF Truthy(dd, "spam_score")
              THEN RMul(R(dd.val["spam_score"]), Rat(1, 2)) ELSE R(0)
        rp == IF Truthy(dd, "trust_flow") /\ Truthy(dd, "citation_flow")
              THEN LET ratio == Rat(dd.val["trust_flow"], dd.val["citation_flow"])
                   IN  RAdd(IF RLt(ratio, Rat(3, 10)) THEN R(20) ELSE R(0),
                            IF RLt(ratio, Rat(5, 10)) THEN R(10) ELSE R(0))
              ELSE R(0)
    IN  RMin(R(100), RAdd(RAdd(cs, ss), rp))

_calculate_spam_penalty(dd) ==
    LET cs == IF Truthy(dd, "spam_score") THEN R(dd.val["spam_score"]) ELSE R(0)
        ss == IF Truthy(dd, "spam_score")
              THEN RMul(R(dd.val["spam_score"]), Rat(1, 2)) ELSE R(0)
        rp == IF Truthy(dd, "trust_flow") /\ Truthy(dd, "citation_flow")
              THEN LET ratio == Rat(dd.val["trust_flow"], dd.val["citation_flow"])
                   IN  IF RLt(ratio, Rat(3, 10)) THEN R(20)
                       ELSE IF RLt(ratio, Rat(5, 10)) THEN R(10) ELSE R(0)
              ELSE R(0)
    IN  RMin(R(100), RAdd(RAdd(cs, ss), rp))

\* the four sub-scores of one record, as lines 31-34 and 185-188 compute them
SubScores(dd) ==
    [seo |-> _calculate_seo_score(dd),
     content |-> _calculate_content_score(dd),
     brandability |-> _calculate_brandability_score(dd),
     spam_penalty |-> _calculate_spam_penalty(dd)]

required_keys == {"seo", "content", "brandability", "spam_penalty"}

\* seo*w['seo'] + content*w['content'] + brandability*w['brandability']
\*   - spam_penalty*w['spam_penalty']
WeightedSum(s, w) ==
    RSub(RAdd(RAdd(RMul(s.seo, w["seo"]), RMul(s.content, w["content"])),
              RMul(s.brandability, w["brandability"])),
         RMul(s.spam_penalty, w["spam_penalty"]))

\* the clamp with its upper bound forgotten
ClampLowerOnly(x) == RMax(R(0), x)

\* max(0, min(100, x))
Clamp(x) == RMax(R(0), RMin(R(100), x))

(***************************************************************************)
(* domain_scorer.py: the public operations, as functions of the record     *)
(* found (dd, NoDetails when the id is unknown) and of the weight dict.    *)
(* A result is [raised |-> whether an exception left the call, ...].       *)
(***************************************************************************)
\* lines 30-51: the body of the try block once the record is found;
\* weights[...] raises KeyError when the dict lacks one of the four keys
ScoreBody(dd, weights) ==
    IF ~(required_keys \subseteq DOMAIN weights)
    THEN [raised |-> TRUE, value |-> R(0)]
    ELSE [raised |-> FALSE, value |-> Clamp(WeightedSum(SubScores(dd), weights))]

\* the call without its except clause: the KeyError leaves the call
calculate_score_uncaught(dd, weights) ==
    IF ~dd.found THEN [raised |-> FALSE, value |-> R(0)] ELSE ScoreBody(dd, weights)

\* lines 20-55; weights is `custom_weights if custom_weights else self.weights`
calculate_score(dd, weights) ==
    IF ~dd.found THEN [raised |-> FALSE, value |-> R(0)]
    ELSE LET body == ScoreBody(dd, weights)
         IN  IF body.raised THEN [raised |-> FALSE, value |-> R(0)] ELSE body

\* line 22: an empty or absent custom_weights selects the stored weights
PickWeights(custom_weights, stored) ==
    IF custom_weights = << >> THEN stored ELSE custom_weights

\* lines 263-270
Verdict(overall_score) ==
    IF RLt(R(80), overall_score) THEN "excellent"
    ELSE IF RLt(R(60), overall_score) THEN "good"
    ELSE IF RLt(R(40), overall_score) THEN "moderate"
    ELSE "low"

Verdicts == {"excellent", "good", "moderate", "low"}

\* lines 227-255: the messages before the verdict, in order of emission
Advice(dd, s) ==
    (IF RLt(s.seo, R(30)) THEN <<"seo_low">> ELSE << >>)
    \o (IF Get(dd, "domain_authority", 0) < 20 THEN <<"authority_low">> ELSE << >>)
    \o (IF RLt(s.content, R(40)) THEN <<"content_low">> ELSE << >>)
    \o (IF ~IsNone(dd, "niche") /\ Get(dd, "niche", "Unknown") = "Unknown"
        THEN <<"niche_unknown">> ELSE << >>)
    \o (IF RLt(s.brandability, R(50)) THEN <<"brandability_low">> ELSE << >>)
    \o (IF RLt(R(30), s.spam_penalty) THEN <<"spam_high">> ELSE << >>)
    \o (IF /\ Truthy(dd, "trust_flow") /\ Truthy(dd, "citation_flow")
           /\ RLt(Rat(dd.val["trust_flow"], dd.val["citation_flow"]), Rat(3, 10))
        THEN <<"trust_low">> ELSE << >>)

\* lines 220-276; `domain_authority < 20` raises TypeError on None and the
\* weighted sum raises KeyError on a missing weight: both are caught here
_generate_recommendations(dd, s, weights) ==
    IF IsNone(dd, "domain_authority") \/ ~(required_keys \subseteq DOMAIN weights)
    THEN <<"error">>
    ELSE Append(Advice(dd, s), Verdict(Clamp(WeightedSum(s, weights))))

EmptyDict == [empty |-> TRUE]

\* the breakdown reporting its weighted sum as computed, not clamped
get_score_breakdown_unclamped(dd, weights) ==
    IF ~dd.found \/ ~(required_keys \subseteq DOMAIN weights) THEN EmptyDict
    ELSE LET s == SubScores(dd)
         IN  [empty |-> FALSE,
              domain_name |-> dd.val["name"],
              overall_score |-> WeightedSum(s, weights),
              component_scores |-> s,
              weighted_contributions |->
                  [k \in required_keys |-> RMul(s[k], weights[k])],
              weights |-> weights,
              recommendations |-> _generate_recommendations(dd, s, weights)]

\* lines 177-218, every read of self.weights finding the same dict
get_score_breakdown(dd, weights) ==
    IF ~dd.found \/ ~(required_keys \subseteq DOMAIN weights) THEN EmptyDict
    ELSE LET s == SubScores(dd)
         IN  [empty |-> FALSE,
              domain_name |-> dd.val["name"],
              overall_score |-> Clamp(WeightedSum(s, weights)),
              component_scores |-> s,
              weighted_contributions |->
                  [seo |-> RMul(s.seo, weights["seo"]),
                   content |-> RMul(s.content, weights["content"]),
                   brandability |-> RMul(s.brandability, weights["brandability"]),
                   spam_penalty |-> RMul(s.spam_penalty, weights["spam_penalty"])],
              weights |-> weights,
              recommendations |-> _generate_recommendations(dd, s, weights)]

\* lines 327-337: niche_multipliers.get(niche, 1.0), in tenths
niche_multiplier(niche) ==
    CASE niche = "Technology" -> Rat(15, 10)
      [] niche = "Finance" -> Rat(20, 10)
      [] niche = "Health" -> Rat(18, 10)
      [] niche = "Business" -> Rat(13, 10)
      [] niche = "Education" -> Rat(12, 10)
      [] niche = "Travel" -> Rat(11, 10)
      [] OTHER -> R(1)

\* the buckets with their upper bounds inclusive
value_range_closed(v) ==
    IF RLe(v, R(100)) THEN "Under $100"
    ELSE IF RLe(v, R(500)) THEN "$100 - $500"
    ELSE IF RLe(v, R(1000)) THEN "$500 - $1,000"
    ELSE IF RLe(v, R(2500)) THEN "$1,000 - $2,500"
    ELSE IF RLe(v, R(5000)) THEN "$2,500 - $5,000"
    ELSE "$5,000+"

\* lines 351-362, on the value before it is floored
value_range(v) ==
    IF RLt(v, R(100)) THEN "Under $100"
    ELSE IF RLt(v, R(500)) THEN "$100 - $500"
    ELSE IF RLt(v, R(1000)) THEN "$500 - $1,000"
    ELSE IF RLt(v, R(2500)) THEN "$1,000 - $2,500"
    ELSE IF RLt(v, R(5000)) THEN "$2,500 - $5,000"
    ELSE "$5,000+"

\* arithmetic on None (lines 318, 324, 341, 345) raises TypeError
EstimateRaises(dd) ==
    \E k \in {"domain_authority", "backlinks", "referring_domains",
              "content_quality", "brandability_score", "spam_score"} : IsNone(dd, k)

\* the estimate returned as computed
FloorValueMissing(v) == v

\* line 366: max(0, estimated_value)
FloorValue(v) == RMax(R(0), v)

\* the estimate with the spam penalty taken off before the multiplier
get_domain_value_estimate_penalty_first(dd) ==
    IF ~dd.found \/ EstimateRaises(dd) THEN EmptyDict
    ELSE LET base_value == R(100)
             seo_value == R(dd.val["domain_authority"] * 10
                            + Log10(dd.val["backlinks"] + 1) * 50
                            + Log10(dd.val["referring_domains"] + 1) * 30)
             content_value == R(dd.val["content_quality"] * 2)
             mult == IF IsNone(dd, "niche") THEN R(1)
                     ELSE niche_multiplier(dd.val["niche"])
             brandability_value == R(dd.val["brandability_score"] * 3)
             spam_penalty == R(dd.val["spam_score"] * 5)
             estimated_value ==
                 RMul(RSub(RAdd(RAdd(RAdd(base_value, seo_value), content_value),
                                brandability_value), spam_penalty),
                      mult)
         IN  [empty |-> FALSE,
              domain_name |-> dd.val["name"],
              estimated_value |-> FloorValue(estimated_value),
              value_range |-> value_range(estimated_value),
              value_components |->
                  [base_value |-> base_value, seo_value |-> seo_value,
                   content_value |-> content_value,
                   brandability_value |-> brandability_value,
                   niche_multiplier |-> mult, spam_penalty |-> spam_penalty]]

\* lines 302-380
get_domain_value_estimate(dd) ==
    IF ~dd.found \/ EstimateRaises(dd) THEN EmptyDict
    ELSE LET base_value == R(100)
             seo_value == R(dd.val["domain_authority"] * 10
                            + Log10(dd.val["backlinks"] + 1) * 50
                            + Log10(dd.val["referring_domains"] + 1) * 30)
             content_value == R(dd.val["content_quality"] * 2)
             mult == IF IsNone(dd, "niche") THEN R(1)
                     ELSE niche_multiplier(dd.val["niche"])
             brandability_value == R(dd.val["brandability_score"] * 3)
             spam_penalty == R(dd.val["spam_score"] * 5)
             estimated_value ==
                 RSub(RMul(RAdd(RAdd(RAdd(base_value, seo_value), content_value),
                                brandability_value), mult),
                      spam_penalty)
         IN  [empty |-> FALSE,
              domain_name |-> dd.val["name"],
              estimated_value |-> FloorValue(estimated_value),
              value_range |-> value_range(estimated_value),
              value_components |->
                  [base_value |-> base_value, seo_value |-> seo_value,
                   content_value |-> content_value,
                   brandability_value |-> brandability_value,
                   niche_multiplier |-> mult, spam_penalty |-> spam_penalty]]

\* line 289: sum(new_weights[key] for key in required_keys[:-1])
Triple(w) == RAdd(RAdd(w["seo"], w["content"]), w["brandability"])

\* the normalization dividing all four weights by the sum of the three
NormalizedWithSpam(w) ==
    LET weight_sum == RAdd(RAdd(w["seo"], w["content"]), w["brandability"])
    IN  IF RLt(R(0), weight_sum) THEN [k \in DOMAIN w |-> RDiv(w[k], weight_sum)] ELSE w

\* lines 288-292: the three divisions, applied to a dict that has the keys
Normalized(w) ==
    LET weight_sum == RAdd(RAdd(w["seo"], w["content"]), w["brandability"])
    IN  IF RLt(R(0), weight_sum)
        THEN [k \in DOMAIN w |->
                IF k \in {"seo", "content", "brandability"}
                THEN RDiv(w[k], weight_sum) ELSE w[k]]
        ELSE w

\* lines 282-286: all(key in new_weights for key in required_keys)
Validated(new_weights) == required_keys \subseteq DOMAIN new_weights

\* the update without the check of lines 284-286
update_weights_unchecked(new_weights) ==
    [ok |-> TRUE,
     dict |-> IF Validated(new_weights) THEN Normalized(new_weights) ELSE new_weights]

\* lines 278-300 on the dict object passed: what it returns, and what the
\* object holds afterwards (it is normalized in place); when ok, self.weights
\* refers to that object from then on
update_weights(new_weights) ==
    IF Validated(new_weights)
    THEN [ok |-> TRUE, dict |-> Normalized(new_weights)]
    ELSE [ok |-> FALSE, dict |-> new_weights]

(***************************************************************************)
(* Inputs offered to the operations.                                       *)
(***************************************************************************)
\* the largest count: log10(Big + 1) = MaxDigits saturates every log term
Big == Pow10(MaxDigits) - 1

\* metric dicts as SEOAnalyzer.analyze_domain returns them: the full bundle
\* (mock data, or every provider answering) and what one provider alone gives
SeoInputs ==
    { [domain_authority |-> 100, page_authority |-> 50, backlinks |-> Big,
       referring_domains |-> Big, organic_traffic |-> Big, trust_flow |-> 100,
       citation_flow |-> 100, spam_score |-> 0],
      [domain_authority |-> 0, page_authority |-> 0, backlinks |-> 0,
       referring_domains |-> 0, organic_traffic |-> 0, trust_flow |-> 0,
       citation_flow |-> 0, spam_score |-> 100],
      [domain_authority |-> 15, page_authority |-> 20, backlinks |-> 9,
       referring_domains |-> 9, organic_traffic |-> 0, trust_flow |-> 20,
       citation_flow |-> 100, spam_score |-> 30],
      [domain_authority |-> 50, page_authority |-> 50, backlinks |-> 99,
       referring_domains |-> 9, organic_traffic |-> 9, trust_flow |-> 20,
       citation_flow |-> 50, spam_score |-> 0],
      [domain_authority |-> 50, page_authority |-> 40, spam_score |-> 10],
      [trust_flow |-> 30, citation_flow |-> 40, referring_domains |-> 99,
       backlinks |-> 999] }

\* analysis dicts as ContentAnalyzer.analyze_domain returns them
ContentInputs ==
    { [niche |-> n, content_quality |-> q, spam_score |-> 100 - q,
       brandability_score |-> q] :
      n \in {"Finance", "Unknown"}, q \in {0, 100} }

Names == {"techpro.com"}

\* ids asked for: the first AUTOINCREMENT id and one that is never stored
QueryIds == {1, 2}

\* lines 9-15
DefaultWeights ==
    [seo |-> Rat(4, 10), content |-> Rat(3, 10), brandability |-> Rat(2, 10),
     spam_penalty |-> Rat(1, 10)]

\* a negative, a zero and a positive weight
WeightVals == {R(-1), R(0), R(MaxWeight)}

FullWeights ==
    [seo : WeightVals, content : WeightVals, brandability : WeightVals,
     spam_penalty : {Rat(1, 10)}]

\* the default weights with one of the four keys left out
PartialWeights ==
    { [k \in required_keys \ {gone} |-> DefaultWeights[k]] : gone \in required_keys }

\* dicts a caller builds for update_weights
WeightInputs == FullWeights \cup PartialWeights

\* custom_weights arguments: none, complete ones, one lacking spam_penalty
CustomInputs ==
    { << >>,
      [seo |-> R(MaxWeight), content |-> R(MaxWeight), brandability |-> R(MaxWeight),
       spam_penalty |-> R(0)],
      [seo |-> R(0), content |-> R(0), brandability |-> R(0),
       spam_penalty |-> R(MaxWeight)],
      [seo |-> R(1), content |-> R(0), brandability |-> R(0)] }

(***************************************************************************)
(* State.                                                                  *)
(***************************************************************************)
VARIABLES
    db,            \* the tables: domains, seo, content
    heap,          \* the dict objects, by address: "init" is built by __init__
    self_weights,  \* which object self.weights refers to
    ret,           \* the last operation, its arguments and what it returned
    upd,           \* a thread inside update_weights: its position and locals
    calc,          \* a thread inside calculate_score: its position and locals
    brk,           \* a thread inside get_score_breakdown: its position and locals
    rng,           \* the state of the generator behind the module `random`
    hashes,        \* hash(str) of this process, for the names hashed so far
    sched,         \* the thread that ran last and the switches so far
    gen,           \* a thread inside _get_mock_content_analysis
    oth,           \* a thread inside SEOAnalyzer.analyze_domain, on the mock path
    generated,     \* the content bundles returned so far, by domain name
    analyzed,      \* a call of ContentAnalyzer.analyze_domain: arguments, result
    disc           \* run_discovery_process: its position, locals and what it did

raceVars == <<upd, calc, brk>>

mockVars == <<rng, hashes, sched, gen, oth, generated>>

vars == <<db, heap, self_weights, ret, upd, calc, brk, rng, hashes, sched, gen,
         oth, generated, analyzed, disc>>

\* the dict self.weights refers to
Stored == heap[self_weights]

\* no thread is inside the scorer
ThreadsIdle ==
    /\ upd = [pc |-> "idle", obj |-> "init", sum |-> R(0), count |-> 0,
              before |-> << >>]
    /\ calc = [pc |-> "idle"]
    /\ brk = [pc |-> "idle"]

\* run_discovery_process has not been called
NoDiscovery == [pc |-> "none"]

\* ContentAnalyzer.analyze_domain has not been called
NoAnalysis == [pc |-> "none"]

OtherNames == {"expired.net"}

\* nothing has used the module `random` yet
MockIdle ==
    /\ rng = 0
    /\ hashes = << >>
    /\ sched = [last |-> "none", switches |-> 0]
    /\ gen = [pc |-> "idle", name |-> "", drawn |-> << >>, count |-> 0]
    /\ oth = [pc |-> "idle", name |-> "", drawn |-> << >>, count |-> 0,
              attempt |-> 0, out |-> [raised |-> FALSE]]
    /\ generated = [n \in Names |-> {}]

Init ==
    /\ db = [domains |-> << >>, seo |-> << >>, content |-> << >>]
    /\ heap = [init |-> DefaultWeights, arg |-> << >>, spare |-> << >>]
    /\ self_weights = "init"
    /\ ret = [op |-> "init"]
    /\ ThreadsIdle
    /\ MockIdle
    /\ analyzed = NoAnalysis
    /\ disc = NoDiscovery

(***************************************************************************)
(* database.py: the writes.  Every caller (app.py 341, 458, 740) analyses  *)
(* a domain only when get_domain_by_name does not find it, so a domain     *)
(* gets each of its rows once.                                             *)
(***************************************************************************)
\* lines 87-110: INSERT OR IGNORE, the id of the new or the existing row
add_domain(name) ==
    LET known == {i \in DOMAIN db.domains : db.domains[i] = name}
        id == IF known = {} THEN Len(db.domains) + 1 ELSE CHOOSE i \in known : TRUE
    IN  /\ db' = IF known = {}
                 THEN [db EXCEPT !.domains = Append(db.domains, name)]
                 ELSE db
        /\ ret' = [op |-> "add_domain", id |-> id]
        /\ UNCHANGED <<heap, self_weights, raceVars, mockVars, analyzed, disc>>

\* lines 112-140
add_seo_metrics(domain_id, metrics) ==
    /\ domain_id \in DOMAIN db.domains
    /\ domain_id \notin DOMAIN db.seo
    /\ db' = [db EXCEPT !.seo = (domain_id :> StoreRow(SeoCols, metrics)) @@ db.seo]
    /\ ret' = [op |-> "add_seo_metrics", id |-> domain_id]
    /\ UNCHANGED <<heap, self_weights, raceVars, mockVars, analyzed, disc>>

\* lines 142-170
add_content_analysis(domain_id, analysis) ==
    /\ domain_id \in DOMAIN db.domains
    /\ domain_id \notin DOMAIN db.content
    /\ db' = [db EXCEPT !.content =
                 (domain_id :> StoreRow(ContentCols, analysis)) @@ db.content]
    /\ ret' = [op |-> "add_content_analysis", id |-> domain_id]
    /\ UNCHANGED <<heap, self_weights, raceVars, mockVars, analyzed, disc>>

(***************************************************************************)
(* domain_scorer.py: the calls, each run to completion.                    *)
(***************************************************************************)
CalculateScore(domain_id, custom_weights) ==
    LET dd == get_domain_details(db, domain_id)
        r == calculate_score(dd, PickWeights(custom_weights, Stored))
    IN  /\ ret' = [op |-> "calculate_score", id |-> domain_id, found |-> dd.found,
                   custom |-> custom_weights, raised |-> r.raised, value |-> r.value]
        /\ UNCHANGED <<db, heap, self_weights, raceVars, mockVars, analyzed, disc>>

GetScoreBreakdown(domain_id) ==
    LET dd == get_domain_details(db, domain_id)
    IN  /\ ret' = [op |-> "get_score_breakdown", id |-> domain_id, found |-> dd.found,
                   out |-> get_score_breakdown(dd, Stored)]
        /\ UNCHANGED <<db, heap, self_weights, raceVars, mockVars, analyzed, disc>>

GetDomainValueEstimate(domain_id) ==
    LET dd == get_domain_details(db, domain_id)
    IN  /\ ret' = [op |-> "get_domain_value_estimate", id |-> domain_id,
                   found |-> dd.found, out |-> get_domain_value_estimate(dd)]
        /\ UNCHANGED <<db, heap, self_weights, raceVars, mockVars, analyzed, disc>>

\* update_weights called with a dict the caller has just built: a new
\* object, which takes the place of the caller's previous one when it is
\* installed and is dropped otherwise
UpdateWeights(w) ==
    LET r == update_weights(w)
    IN  /\ IF r.ok
           THEN /\ heap' = [heap EXCEPT !["arg"] = r.dict]
                /\ self_weights' = "arg"
           ELSE UNCHANGED <<heap, self_weights>>
        /\ ret' = [op |-> "update_weights", ok |-> r.ok, given |-> w]
        /\ UNCHANGED <<db, raceVars, mockVars, analyzed, disc>>

Next ==
    \/ \E n \in Names : add_domain(n)
    \/ \E i \in QueryIds, m \in SeoInputs : add_seo_metrics(i, m)
    \/ \E i \in QueryIds, a \in ContentInputs : add_content_analysis(i, a)
    \/ \E i \in QueryIds, c \in CustomInputs : CalculateScore(i, c)
    \/ \E i \in QueryIds : GetScoreBreakdown(i)
    \/ \E i \in QueryIds : GetDomainValueEstimate(i)
    \/ \E w \in WeightInputs : UpdateWeights(w)

Spec == Init /\ [][Next]_vars

(***************************************************************************)
(* Properties of the scorer, checked under Spec.                           *)
(***************************************************************************)
InRange(x) == RLe(R(0), x) /\ RLe(x, R(100))

\* the record a call was about, and the weights it used
RetDetails == get_domain_details(db, ret.id)
RetWeights == PickWeights(ret.custom, Stored)

\* C1: for every stored record and every weight set in force (the defaults,
\* weights installed by update_weights, custom_weights), calculate_score
\* returns a number in [0, 100]
C1_ScoreInRange ==
    ret.op = "calculate_score" => ~ret.raised /\ InRange(ret.value)

\* C1 witness: custom weights whose weighted sum exceeds 100 were clamped,
\* on a scorer whose stored weights were installed by update_weights
C1_Witness ==
    /\ ret.op = "calculate_score" /\ ret.found /\ Validated(ret.custom)
    /\ self_weights = "arg"
    /\ RLt(R(100), WeightedSum(SubScores(RetDetails), ret.custom))
    /\ ret.value = R(100)

\* C2: every estimate produced has estimated_value >= 0, also for a record
\* with spam score 100 and every other signal at its minimum
C2_EstimateNonNegative ==
    (ret.op = "get_domain_value_estimate" /\ ~ret.out.empty)
        => RLe(R(0), ret.out.estimated_value)

\* the (base + seo + content + brandability) * multiplier - spam of an estimate
RawValue(c) ==
    RSub(RMul(RAdd(RAdd(RAdd(c.base_value, c.seo_value), c.content_value),
                   c.brandability_value), c.niche_multiplier),
         c.spam_penalty)

\* C2 witness: spam score 100, everything else 0, the raw value negative
C2_Witness ==
    /\ ret.op = "get_domain_value_estimate" /\ ~ret.out.empty
    /\ RetDetails.val["spam_score"] = 100
    /\ ret.out.value_components.seo_value = R(0)
    /\ ret.out.value_components.content_value = R(0)
    /\ ret.out.value_components.brandability_value = R(0)
    /\ RLt(RawValue(ret.out.value_components), R(0))
    /\ ret.out.estimated_value = R(0)

\* a domain with no metrics rows: every SEO and content field is None
AllAbsent(dd) == dd.found /\ DOMAIN dd.val = {"name"}

Last(seq) == seq[Len(seq)]

\* C3: for a domain whose SEO and content fields are all absent,
\* get_score_breakdown returns a complete breakdown whose recommendations
\* end in a verdict and get_domain_value_estimate returns a complete
\* estimate; neither returns an empty record
C3_AbsentFieldsComplete ==
    /\ (ret.op = "get_score_breakdown" /\ AllAbsent(RetDetails))
          => /\ ~ret.out.empty
             /\ InRange(ret.out.overall_score)
             /\ Last(ret.out.recommendations) \in Verdicts
    /\ (ret.op = "get_domain_value_estimate" /\ AllAbsent(RetDetails))
          => /\ ~ret.out.empty
             /\ RLe(R(0), ret.out.estimated_value)

\* C4: calculate_score never raises; for an id with no record, or with
\* custom_weights lacking a key, it returns 0.0; the stored weights are
\* left as they were
C4_ScoreNeverRaises ==
    [][ret'.op = "calculate_score" =>
          /\ ~ret'.raised
          /\ (~ret'.found => ret'.value = R(0))
          /\ (ret'.custom # << >> /\ ~Validated(ret'.custom) => ret'.value = R(0))
          /\ heap' = heap /\ self_weights' = self_weights]_vars

\* C4 witness: a stored record with a positive SEO sub-score, scored with
\* custom weights that lack spam_penalty, gave 0.0
C4_Witness ==
    /\ ret.op = "calculate_score" /\ ret.found
    /\ ret.custom # << >> /\ ~Validated(ret.custom)
    /\ RLt(R(0), _calculate_seo_score(RetDetails))
    /\ ~ret.raised /\ ret.value = R(0)

\* the score of every id under the stored weights
ScoreTable == [i \in QueryIds |-> calculate_score(get_domain_details(db, i), Stored)]

\* C5: update_weights with a weight set lacking a key returns False and
\* leaves the stored weights exactly as they were: the object self.weights
\* refers to, its contents and the records are the same before and after,
\* and the score of a record is a function of these
C5_RejectedUpdateKeepsWeights ==
    [][(ret'.op = "update_weights" /\ ~Validated(ret'.given)) =>
          /\ ~ret'.ok
          /\ self_weights' = self_weights
          /\ heap' = heap
          /\ db' = db]_vars

\* C5 witness: a rejected update on a scorer holding installed weights and
\* a record that scores above 0
C5_Witness ==
    /\ ret.op = "update_weights" /\ ~ret.ok
    /\ self_weights = "arg"
    /\ \E i \in QueryIds : RLt(R(0), ScoreTable[i].value)

\* C6: after every update_weights that returns True, for any numeric values
\* (all-zero and negative ones included), the stored seo, content and
\* brandability weights sum to 1.0
C6_TripleSumsToOne ==
    (ret.op = "update_weights" /\ ret.ok) => Triple(Stored) = R(1)

C7Example ==
    [seo |-> R(2), content |-> R(2), brandability |-> R(0), spam_penalty |-> Rat(1, 10)]

\* a record with SEO sub-score 100 and zero content, brandability and spam
SeoOnlyRecord(dd) ==
    /\ dd.found
    /\ SubScores(dd) = [seo |-> R(100), content |-> R(0), brandability |-> R(0),
                        spam_penalty |-> R(0)]

\* C7: after a successful update_weights(w) whose triple sum S is positive
\* the stored weights are w.seo/S, w.content/S, w.brandability/S and
\* w.spam_penalty; for w = (2, 2, 0, 0.1) they are (0.5, 0.5, 0, 0.1) and a
\* record with SEO sub-score 100 and nothing else scores 50
C7_NormalizedWeights ==
    (ret.op = "update_weights" /\ ret.ok /\ RLt(R(0), Triple(ret.given))) =>
        /\ \A k \in {"seo", "content", "brandability"} :
              RMul(Stored[k], Triple(ret.given)) = ret.given[k]
        /\ Stored["spam_penalty"] = ret.given["spam_penalty"]
        /\ DOMAIN Stored = required_keys
        /\ ret.given = C7Example =>
              /\ Stored = [seo |-> Rat(1, 2), content |-> Rat(1, 2),
                           brandability |-> R(0), spam_penalty |-> Rat(1, 10)]
              /\ \A i \in QueryIds :
                    SeoOnlyRecord(get_domain_details(db, i))
                        => ScoreTable[i].value = R(50)

\* C7 witness: the example weights installed over a stored SEO-only record
C7_Witness ==
    /\ ret.op = "update_weights" /\ ret.ok /\ ret.given = C7Example
    /\ \E i \in QueryIds : SeoOnlyRecord(get_domain_details(db, i))

(***************************************************************************)
(* The scorer shared by threads (app.py 23-32: one cached DomainScorer for *)
(* every session).  update_weights, calculate_score and                    *)
(* get_score_breakdown advance one read or write of a weight at a time.    *)
(***************************************************************************)
\* the order in which the four weights are read and the three are normalized
KeyOrder == <<"seo", "content", "brandability", "spam_penalty">>

\* a database holding one analysed domain
AnalysedDb(m, a) ==
    [domains |-> <<"techpro.com">>,
     seo |-> (1 :> StoreRow(SeoCols, m)),
     content |-> (1 :> StoreRow(ContentCols, a))]

\* the records scored while the weights change
RaceMetrics == {m \in SeoInputs : DOMAIN m = SeoCols /\ m.domain_authority \in {15, 100}}
RaceAnalyses == {a \in ContentInputs : a.niche = "Finance" /\ a.content_quality = 100}

\* dicts built for update_weights while scores are computed
RaceWeights ==
    { [seo |-> R(MaxWeight), content |-> R(MaxWeight), brandability |-> R(0),
       spam_penalty |-> Rat(1, 10)],
      [seo |-> R(0), content |-> R(0), brandability |-> R(MaxWeight),
       spam_penalty |-> R(1)],
      [seo |-> R(1), content |-> R(1), brandability |-> R(1)] }

InitRace ==
    /\ db \in {AnalysedDb(m, a) : m \in RaceMetrics, a \in RaceAnalyses}
    /\ heap = [init |-> DefaultWeights, arg |-> << >>, spare |-> << >>]
    /\ self_weights = "init"
    /\ ret = [op |-> "init"]
    /\ ThreadsIdle
    /\ MockIdle
    /\ analyzed = NoAnalysis
    /\ disc = NoDiscovery

\* the objects some reference still reaches
Referenced ==
    {self_weights}
    \cup (IF calc.pc \in {"idle", "done"} THEN {} ELSE {calc.w})
    \cup (IF brk.pc \in {"weights_read", "verdict", "return"} THEN {brk.ref} ELSE {})

\* the address a newly built dict gets: one no reference reaches
FreshObject == CHOOSE o \in DOMAIN heap : o \notin Referenced

\* the weight set in force outside the in-place writes of update_weights:
\* the stored one, or, while a call is under way, the one stored at its entry
QuiescentStored == IF upd.pc = "idle" THEN Stored ELSE upd.before

\* the weight sets a reader may legitimately see, extended at line 294
Installed(reader, now) ==
    IF reader.pc \in {"idle", "done"} THEN reader
    ELSE [reader EXCEPT !.sets = @ \cup {now}]

\* update_weights(w) is entered with a dict the caller has just built
U_CallFresh(w) ==
    /\ upd.pc = "idle" /\ upd.count < MaxUpdates
    /\ heap' = [heap EXCEPT ![FreshObject] = w]
    /\ upd' = [upd EXCEPT !.pc = "validate", !.obj = FreshObject, !.before = Stored]
    /\ UNCHANGED <<db, self_weights, ret, calc, brk, mockVars, analyzed, disc>>

\* update_weights(scorer.weights): the caller passes the stored dict itself
\* (read from the scorer, or from the 'weights' entry of a breakdown)
U_CallStored ==
    /\ upd.pc = "idle" /\ upd.count < MaxUpdates
    /\ upd' = [upd EXCEPT !.pc = "validate", !.obj = self_weights, !.before = Stored]
    /\ UNCHANGED <<db, heap, self_weights, ret, calc, brk, mockVars, analyzed, disc>>

\* lines 282-286
U_Validate ==
    /\ upd.pc = "validate"
    /\ upd' = IF Validated(heap[upd.obj])
              THEN [upd EXCEPT !.pc = "sum"]
              ELSE [upd EXCEPT !.pc = "idle", !.count = @ + 1]
    /\ UNCHANGED <<db, heap, self_weights, ret, calc, brk, mockVars, analyzed, disc>>

\* lines 289-290
U_Sum ==
    /\ upd.pc = "sum"
    /\ upd' = [upd EXCEPT !.sum = Triple(heap[upd.obj]),
                          !.pc = IF RLt(R(0), Triple(heap[upd.obj]))
                                 THEN "seo" ELSE "assign"]
    /\ UNCHANGED <<db, heap, self_weights, ret, calc, brk, mockVars, analyzed, disc>>

\* lines 291-292, one key per step: new_weights[key] = new_weights[key] / weight_sum
U_Normalize ==
    /\ upd.pc \in {"seo", "content", "brandability"}
    /\ heap' = [heap EXCEPT ![upd.obj][upd.pc] = RDiv(@, upd.sum)]
    /\ upd' = [upd EXCEPT !.pc = CASE upd.pc = "seo" -> "content"
                                   [] upd.pc = "content" -> "brandability"
                                   [] OTHER -> "assign"]
    /\ UNCHANGED <<db, self_weights, ret, calc, brk, mockVars, analyzed, disc>>

\* lines 294-296: self.weights = new_weights; return True
U_Assign ==
    /\ upd.pc = "assign"
    /\ self_weights' = upd.obj
    /\ upd' = [upd EXCEPT !.pc = "idle", !.count = @ + 1]
    /\ calc' = Installed(calc, heap[upd.obj])
    /\ brk' = Installed(brk, heap[upd.obj])
    /\ UNCHANGED <<db, heap, ret, mockVars, analyzed, disc>>

\* line 22, without custom_weights: weights = self.weights
C_Bind(domain_id) ==
    /\ calc.pc = "idle"
    /\ calc' = [pc |-> "details", id |-> domain_id, w |-> self_weights,
                read |-> << >>, sets |-> {QuiescentStored}, value |-> R(0)]
    /\ UNCHANGED <<db, heap, self_weights, ret, upd, brk, mockVars, analyzed, disc>>

\* lines 25-34
C_Details ==
    /\ calc.pc = "details"
    /\ calc' = IF get_domain_details(db, calc.id).found
               THEN [calc EXCEPT !.pc = "read"]
               ELSE [calc EXCEPT !.pc = "done", !.value = R(0)]
    /\ UNCHANGED <<db, heap, self_weights, ret, upd, brk, mockVars, analyzed, disc>>

\* lines 38-41, one subscript per step; a missing key is the KeyError of line 53
C_Read ==
    /\ calc.pc = "read"
    /\ LET k == KeyOrder[Cardinality(DOMAIN calc.read) + 1]
       IN  calc' = IF k \notin DOMAIN heap[calc.w]
                   THEN [calc EXCEPT !.pc = "done", !.value = R(0)]
                   ELSE [calc EXCEPT
                           !.read = (k :> heap[calc.w][k]) @@ @,
                           !.pc = IF k = "spam_penalty" THEN "clamp" ELSE "read"]
    /\ UNCHANGED <<db, heap, self_weights, ret, upd, brk, mockVars, analyzed, disc>>

\* lines 37-51
C_Return ==
    /\ calc.pc = "clamp"
    /\ calc' = [calc EXCEPT
                  !.pc = "done",
                  !.value = Clamp(WeightedSum(SubScores(get_domain_details(db, calc.id)),
                                              calc.read))]
    /\ UNCHANGED <<db, heap, self_weights, ret, upd, brk, mockVars, analyzed, disc>>

NextScoreRace ==
    \/ \E w \in RaceWeights : U_CallFresh(w)
    \/ U_CallStored
    \/ U_Validate
    \/ U_Sum
    \/ U_Normalize
    \/ U_Assign
    \/ \E i \in QueryIds : C_Bind(i)
    \/ C_Details
    \/ C_Read
    \/ C_Return

SpecScoreRace == InitRace /\ [][NextScoreRace]_vars

\* C8: the four weights calculate_score used while update_weights ran are
\* one weight set, the one stored before the update or the normalized one
\* stored after it, never a mixture or a half-normalized set
C8_ScoreSeesOneWeightSet ==
    (calc.pc = "done" /\ DOMAIN calc.read = required_keys)
        => calc.read \in calc.sets

\* lines 180-188
B_Start(domain_id) ==
    /\ brk.pc = "idle"
    /\ brk' = IF get_domain_details(db, domain_id).found
              THEN [pc |-> "overall", id |-> domain_id, overall |-> << >>,
                    contrib |-> << >>, ref |-> self_weights, verdict |-> << >>,
                    sets |-> {QuiescentStored}, out |-> EmptyDict]
              ELSE [pc |-> "done", id |-> domain_id, out |-> EmptyDict]
    /\ UNCHANGED <<db, heap, self_weights, ret, upd, calc, mockVars, analyzed, disc>>

\* reading self.weights[k] into one of the three weighted sums; a missing
\* key is a KeyError
ReadWeight(group, then) ==
    LET k == KeyOrder[Cardinality(DOMAIN brk[group]) + 1]
    IN  IF k \notin DOMAIN Stored
        THEN [brk EXCEPT !.pc = "failed"]
        ELSE [brk EXCEPT ![group] = (k :> Stored[k]) @@ @,
                         !.pc = IF k = "spam_penalty" THEN then ELSE @]

\* lines 190-195, one self.weights[...] per step
B_ReadOverall ==
    /\ brk.pc = "overall"
    /\ brk' = ReadWeight("overall", "contrib")
    /\ UNCHANGED <<db, heap, self_weights, ret, upd, calc, mockVars, analyzed, disc>>

\* lines 206-211
B_ReadContribution ==
    /\ brk.pc = "contrib"
    /\ brk' = ReadWeight("contrib", "weights")
    /\ UNCHANGED <<db, heap, self_weights, ret, upd, calc, mockVars, analyzed, disc>>

\* line 212: 'weights': self.weights
B_ReadWeights ==
    /\ brk.pc = "weights"
    /\ brk' = [brk EXCEPT !.ref = self_weights, !.pc = "weights_read"]
    /\ UNCHANGED <<db, heap, self_weights, ret, upd, calc, mockVars, analyzed, disc>>

\* lines 224-255: the advice needs no weight; `domain_authority < 20` may raise
B_Advice ==
    /\ brk.pc = "weights_read"
    /\ brk' = [brk EXCEPT !.pc = "verdict"]
    /\ UNCHANGED <<db, heap, self_weights, ret, upd, calc, mockVars, analyzed, disc>>

\* lines 258-261
B_ReadVerdict ==
    /\ brk.pc = "verdict"
    /\ brk' = IF IsNone(get_domain_details(db, brk.id), "domain_authority")
              THEN [brk EXCEPT !.pc = "return"]
              ELSE ReadWeight("verdict", "return")
    /\ UNCHANGED <<db, heap, self_weights, ret, upd, calc, mockVars, analyzed, disc>>

\* the dict of lines 197-214 from the weights read on the way, the returned
\* 'weights' being the object read at line 212 as it is on return
BreakdownOf(dd, b, returned) ==
    LET s == SubScores(dd)
    IN  [empty |-> FALSE,
         domain_name |-> dd.val["name"],
         overall_score |-> Clamp(WeightedSum(s, b.overall)),
         component_scores |-> s,
         weighted_contributions |->
             [k \in required_keys |-> RMul(s[k], b.contrib[k])],
         weights |-> returned,
         recommendations |->
             IF DOMAIN b.verdict = required_keys
             THEN Append(Advice(dd, s), Verdict(Clamp(WeightedSum(s, b.verdict))))
             ELSE <<"error">>]

\* lines 197-218: the return, or the `return {}` of the except clause
B_Return ==
    /\ brk.pc \in {"return", "failed"}
    /\ brk' = [brk EXCEPT
                 !.pc = "done",
                 !.out = IF brk.pc = "failed" THEN EmptyDict
                         ELSE BreakdownOf(get_domain_details(db, brk.id), brk,
                                          heap[brk.ref])]
    /\ UNCHANGED <<db, heap, self_weights, ret, upd, calc, mockVars, analyzed, disc>>

NextBreakdownRace ==
    \/ \E w \in RaceWeights : U_CallFresh(w)
    \/ U_CallStored
    \/ U_Validate
    \/ U_Sum
    \/ U_Normalize
    \/ U_Assign
    \/ \E i \in QueryIds : B_Start(i)
    \/ B_ReadOverall
    \/ B_ReadContribution
    \/ B_ReadWeights
    \/ B_Advice
    \/ B_ReadVerdict
    \/ B_Return

SpecBreakdownRace == InitRace /\ [][NextBreakdownRace]_vars

\* the breakdown get_score_breakdown returns when every read finds weights
WholeBreakdown(dd, weights) == get_score_breakdown(dd, weights)

\* C9: the overall_score, the four weighted_contributions, the returned
\* weights and the closing verdict of a breakdown computed while
\* update_weights ran all come from one weight set, the old or the new one
C9_BreakdownSeesOneWeightSet ==
    (brk.pc = "done" /\ ~brk.out.empty) =>
        \E w \in brk.sets :
            brk.out = WholeBreakdown(get_domain_details(db, brk.id), w)

(***************************************************************************)
(* The mock generators.  The analyzers are built once (app.py 23-32) and   *)
(* serve every session thread; both mocks seed and draw from the one       *)
(* generator of the module `random`.  The generator is a congruential one  *)
(* of period RngPeriod: what matters of it is that its draws are a         *)
(* function of the seed and of the number of draws since.                  *)
(***************************************************************************)
HashVals == 0..MaxHash

NextRng(x) == (x * 37 + 11) % RngPeriod

\* random.seed(a)
seed(a) == a % RngPeriod

\* random.randint(a, b) from the generator's output x; a ValueError when
\* the range is empty
EmptyRange(a, b) == b < a

randint(x, a, b) == a + (x % (b - a + 1))

\* random.choice(seq)
choice(x, seq) == seq[1 + (x % Len(seq))]

\* random.uniform(a, b): a + (b - a) * random()
uniform(x, a, b) == RAdd(a, RMul(RSub(b, a), Rat(x, RngPeriod)))

\* random.sample(population, k): k draws, each taking one element out of
\* the pool and moving the pool's last element into its place
RECURSIVE sample(_, _, _)
sample(x0, pool, k) ==
    IF k = 0 THEN [rng |-> x0, value |-> << >>]
    ELSE LET x == NextRng(x0)
             n == Len(pool)
             j == 1 + (x % n)
             rest == sample(x, [i \in 1..(n - 1) |->
                                   IF i = j THEN pool[n] ELSE pool[i]], k - 1)
         IN  [rng |-> rest.rng, value |-> <<pool[j]>> \o rest.value]

\* round(r, 2) of a non-negative r, a tie going to the even digit
round2(r) ==
    LET q == (r[1] * 100) \div r[2]
        m == (r[1] * 100) % r[2]
    IN  Rat(IF 2 * m > r[2] \/ (2 * m = r[2] /\ q % 2 = 1) THEN q + 1 ELSE q, 100)

Min(a, b) == IF a < b THEN a ELSE b

\* hash(domain) % 1000000, hash(domain) being whatever this process gave
\* the name the first time it was hashed
HashChoices(name) ==
    IF name \in DOMAIN hashes THEN {hashes[name]} ELSE HashVals

Remember(name, h) == (name :> h) @@ hashes

\* a thread takes a step: the interpreter switches threads at most
\* MaxSwitches times
Run(t) ==
    /\ sched.last \in {"none", t} \/ sched.switches < MaxSwitches
    /\ sched' = [last |-> t,
                 switches |-> IF sched.last \in {"none", t} THEN sched.switches
                              ELSE sched.switches + 1]

niches ==
    <<"Technology", "Health", "Finance", "Travel", "Education", "Entertainment",
      "Business", "Food", "Fashion">>

keywords ==
    <<"technology", "business", "marketing", "development", "strategy",
      "innovation", "digital", "growth", "success", "professional">>

ContentDraws == 11

\* the i-th call on `random` of lines 418-433, from generator state x0 and
\* the values drawn before
ContentDraw(i, x0, drawn) ==
    LET x == NextRng(x0)
        one(v) == [rng |-> x, value |-> v]
    IN  CASE i = 1 -> one(choice(x, niches))
          [] i = 2 -> one(randint(x, 30, 95))
          [] i = 3 -> one(randint(x, 0, 30))
          [] i = 4 -> one(randint(x, 40, 90))
          [] i = 5 -> one(randint(x, 5, 10))
          [] i = 6 -> sample(x0, keywords, drawn[5])
          [] i = 7 -> one(uniform(x, Rat(3, 10), Rat(7, 10)))
          [] i = 8 -> one(uniform(x, R(0), Rat(2, 10)))
          [] i = 9 -> one(uniform(x, Rat(3, 10), Rat(5, 10)))
          [] i = 10 -> one(uniform(x, Rat(1, 10), Rat(6, 10)))
          [] OTHER -> one(randint(x, 60, 90))

\* the dict of lines 418-433
ContentBundle(name, d) ==
    [niche |-> d[1], content_quality |-> d[2], spam_score |-> d[3],
     brandability_score |-> d[4], keywords |-> d[6], historical_content |-> name,
     language |-> "english",
     sentiment |-> [positive |-> d[7], negative |-> d[8], neutral |-> d[9],
                    compound |-> d[10]],
     readability |-> d[11]]

\* lines 411-414
G_Seed(name) ==
    /\ gen.pc = "idle"
    /\ gen.count < MaxGenerations
    /\ Run("gen")
    /\ \E h \in HashChoices(name) :
           /\ hashes' = Remember(name, h)
           /\ rng' = seed(h % 1000000)
    /\ gen' = [gen EXCEPT !.pc = "draw", !.name = name, !.drawn = << >>]
    /\ UNCHANGED <<db, heap, self_weights, ret, raceVars, analyzed, disc, oth, generated>>

\* lines 418-432, one call on `random` per step
G_Draw ==
    /\ gen.pc = "draw"
    /\ Run("gen")
    /\ LET r == ContentDraw(Len(gen.drawn) + 1, rng, gen.drawn)
       IN  /\ rng' = r.rng
           /\ gen' = [gen EXCEPT
                        !.drawn = Append(@, r.value),
                        !.pc = IF Len(gen.drawn) + 1 = ContentDraws
                               THEN "return" ELSE @]
    /\ UNCHANGED <<db, heap, self_weights, ret, raceVars, analyzed, disc, hashes, oth,
                   generated>>

\* line 418: the return
G_Return ==
    /\ gen.pc = "return"
    /\ generated' = [generated EXCEPT
                       ![gen.name] = @ \cup {ContentBundle(gen.name, gen.drawn)}]
    /\ gen' = [gen EXCEPT !.pc = "idle", !.count = @ + 1]
    /\ UNCHANGED <<db, heap, self_weights, ret, raceVars, analyzed, disc, rng, hashes,
                   sched, oth>>

SeoDraws == 10

\* the bounds of the i-th randint of _get_mock_seo_data, lines 194-220, d
\* being the values drawn before
SeoRange(i, d) ==
    CASE i = 1 -> <<5, 85>>
      [] i = 2 -> <<5, Min(d[1] + 15, 95)>>
      [] i = 3 -> <<10, d[1] * 100>>
      [] i = 4 -> <<5, Min(d[3] \div 10, 1000)>>
      [] i = 5 -> <<5, 60>>
      [] i = 6 -> <<d[5], Min(d[5] + 20, 80)>>
      [] i = 7 -> <<0, d[1] * 50>>
      [] i = 8 -> <<0, 30>>
      [] OTHER -> <<10, d[1] * 20>>

\* the dict of lines 211-222
SeoBundle(d) ==
    [domain_authority |-> d[1], page_authority |-> d[2], backlinks |-> d[3],
     referring_domains |-> d[4], organic_traffic |-> d[7], trust_flow |-> d[5],
     citation_flow |-> d[6], spam_score |-> d[8], organic_keywords |-> d[9],
     organic_cost |-> d[10]]

\* seo_analyzer.py 25-55 with no provider answering, then lines 187-191;
\* again from line 61 after the first attempt raised
S_Seed(name) ==
    /\ \/ oth.pc = "idle" /\ oth.count < MaxGenerations
       \/ oth.pc = "retry" /\ name = oth.name
    /\ Run("oth")
    /\ \E h \in HashChoices(name) :
           /\ hashes' = Remember(name, h)
           /\ rng' = seed(h % 1000000)
    /\ oth' = [oth EXCEPT !.pc = "draw", !.name = name, !.drawn = << >>,
                          !.attempt = IF oth.pc = "retry" THEN 2 ELSE 1]
    /\ UNCHANGED <<db, heap, self_weights, ret, raceVars, analyzed, disc, gen, generated>>

\* lines 194-221, one call on `random` per step; an empty range raises
\* ValueError, caught once at line 59
S_Draw ==
    /\ oth.pc = "draw"
    /\ Run("oth")
    /\ LET i == Len(oth.drawn) + 1
           x == NextRng(rng)
           b == SeoRange(i, oth.drawn)
           last == IF i = SeoDraws THEN "return" ELSE "draw"
       IN  /\ rng' = IF i < SeoDraws /\ EmptyRange(b[1], b[2]) THEN rng ELSE x
           /\ oth' =
                IF i = SeoDraws
                THEN [oth EXCEPT
                        !.drawn = Append(@, round2(uniform(x, R(100),
                                                   R(oth.drawn[1] * 100)))),
                        !.pc = "return"]
                ELSE IF EmptyRange(b[1], b[2])
                THEN [oth EXCEPT !.pc = IF oth.attempt = 1 THEN "retry"
                                        ELSE "raised"]
                ELSE [oth EXCEPT !.drawn = Append(@, randint(x, b[1], b[2]))]
    /\ UNCHANGED <<db, heap, self_weights, ret, raceVars, analyzed, disc, hashes, gen,
                   generated>>

\* line 211: the return, or the ValueError leaving analyze_domain at line 61
S_Return ==
    /\ oth.pc \in {"return", "raised"}
    /\ oth' = [oth EXCEPT !.pc = "idle", !.count = @ + 1,
                          !.out = IF oth.pc = "raised" THEN [raised |-> TRUE]
                                  ELSE SeoBundle(oth.drawn)]
    /\ UNCHANGED <<db, heap, self_weights, ret, raceVars, analyzed, disc, rng, hashes,
                   sched, gen,
                   generated>>

NextMock ==
    \/ \E n \in Names : G_Seed(n)
    \/ G_Draw
    \/ G_Return
    \/ \E n \in OtherNames : S_Seed(n)
    \/ S_Draw
    \/ S_Return

SpecMock == Init /\ [][NextMock]_vars

\* C10: the mock content bundles generated for one domain name are all the
\* same bundle, whatever other mock generation seeded or drew from the
\* shared generator in between
C10_MockBundleReproducible ==
    \A n \in Names : Cardinality(generated[n]) <= 1

(***************************************************************************)
(* The scorer over a grid of stored records: the database holds one        *)
(* analysed domain and the three read operations are applied to it.        *)
(***************************************************************************)
\* full metric bundles around the value buckets; a provider's figures are
\* stored as given, so an authority above 100 is stored too
ValueMetrics ==
    { [domain_authority |-> da, page_authority |-> da, backlinks |-> n,
       referring_domains |-> n, organic_traffic |-> n, trust_flow |-> 0,
       citation_flow |-> 0, spam_score |-> s] :
      da \in {0, 40, 90, 100, 240}, n \in {0, Big}, s \in {0, 100} }

\* full metric bundles around the trust/citation ratio tiers
RatioMetrics ==
    { [domain_authority |-> 50, page_authority |-> 50, backlinks |-> 9,
       referring_domains |-> 9, organic_traffic |-> 9, trust_flow |-> tf,
       citation_flow |-> cf, spam_score |-> s] :
      tf \in {0, 3, 5, 29, 30, 50}, cf \in {0, 10, 100}, s \in {0, 20, 100} }

ScoredMetrics ==
    {"domain_authority", "backlinks", "referring_domains", "trust_flow",
     "organic_traffic"}

AllMetrics ==
    [domain_authority |-> 50, page_authority |-> 50, backlinks |-> 99,
     referring_domains |-> 9, organic_traffic |-> 9, trust_flow |-> 20,
     citation_flow |-> 50, spam_score |-> 10]

\* what providers answering for part of the metrics leave: any subset of
\* the five scored metrics missing from the dict
PartialMetrics ==
    { [k \in DOMAIN AllMetrics \ gone |-> AllMetrics[k]] :
      gone \in SUBSET ScoredMetrics }

MetricsGrid == ValueMetrics \cup RatioMetrics \cup PartialMetrics

AnalysisGrid ==
    { [niche |-> n, content_quality |-> q, spam_score |-> 0,
       brandability_score |-> q] :
      n \in {"Finance", "General", "Unknown"}, q \in {0, 50, 100} }

\* the keys of the dict ContentAnalyzer.analyze_domain returns that hold a
\* number or a niche; "sentiment" stands for its compound score
AnalysisKeys == ContentCols \cup {"readability", "sentiment"}

\* one analysis per niche the analyzer can name, and one naming none; the
\* page's spam score differs from every stored link spam score
NicheAnalyses ==
    { [k \in has |->
         CASE k = "niche" -> n
           [] k = "content_quality" -> 40
           [] k = "spam_score" -> 55
           [] k = "brandability_score" -> 70
           [] k = "readability" -> 80
           [] k = "sentiment" -> Rat(1, 2)] :
      has \in {AnalysisKeys, AnalysisKeys \ {"niche"}},
      n \in {niches[i] : i \in DOMAIN niches} \cup {"General", "Unknown"} }

InitRecords ==
    /\ db \in {AnalysedDb(m, a) : m \in MetricsGrid, a \in AnalysisGrid}
              \cup {AnalysedDb(m, a) : m \in ValueMetrics, a \in NicheAnalyses}
    /\ heap = [init |-> DefaultWeights, arg |-> << >>, spare |-> << >>]
    /\ self_weights = "init"
    /\ ret = [op |-> "init"]
    /\ ThreadsIdle
    /\ MockIdle
    /\ analyzed = NoAnalysis
    /\ disc = NoDiscovery

NextRecords ==
    \/ \E i \in QueryIds, c \in CustomInputs : CalculateScore(i, c)
    \/ \E i \in QueryIds : GetScoreBreakdown(i)
    \/ \E i \in QueryIds : GetDomainValueEstimate(i)

SpecRecords == InitRecords /\ [][NextRecords]_vars

\* what one present metric contributes to the SEO sub-score
SeoContribution(k, v) ==
    CASE k = "domain_authority" -> Rat(v * 30, 100)
      [] k = "backlinks" -> LogContribution(v, 25, 25)
      [] k = "referring_domains" -> LogContribution(v, 30, 20)
      [] k = "trust_flow" -> Rat(v * 15, 100)
      [] k = "organic_traffic" -> LogContribution(v, 15, 10)

RECURSIVE RSum(_, _)
RSum(f, S) ==
    IF S = {} THEN R(0)
    ELSE LET k == CHOOSE x \in S : TRUE
         IN  RAdd(f[k], RSum(f, S \ {k}))

\* the sum of the contributions of the scored metrics a record holds
PresentContributions(dd) ==
    LET present == ScoredMetrics \cap DOMAIN dd.val
    IN  RSum([k \in present |-> SeoContribution(k, dd.val[k])], present)

\* C12: whichever of the five scored metrics are absent from a record, its
\* SEO sub-score is the sum of the contributions of the metrics present
C12_AbsentMetricContributesZero ==
    (ret.op = "get_score_breakdown" /\ ~ret.out.empty) =>
        ret.out.component_scores.seo = PresentContributions(RetDetails)

\* the label whose bucket [lo, hi) holds v
BucketLabels ==
    { <<0, 100, "Under $100">>, <<100, 500, "$100 - $500">>,
      <<500, 1000, "$500 - $1,000">>, <<1000, 2500, "$1,000 - $2,500">>,
      <<2500, 5000, "$2,500 - $5,000">> }

LabelOf(v) ==
    IF \E b \in BucketLabels : RLe(R(b[1]), v) /\ RLt(v, R(b[2]))
    THEN (CHOOSE b \in BucketLabels : RLe(R(b[1]), v) /\ RLt(v, R(b[2])))[3]
    ELSE "$5,000+"

\* C15: the value_range of an estimate is the bucket of its estimated_value,
\* lower bounds inclusive and upper bounds exclusive: 100 is labelled
\* '$100 - $500' and an estimate floored to 0 'Under $100'
C15_ValueRangeMatchesValue ==
    (ret.op = "get_domain_value_estimate" /\ ~ret.out.empty) =>
        /\ ret.out.value_range = LabelOf(ret.out.estimated_value)
        /\ ret.out.estimated_value = R(100) => ret.out.value_range = "$100 - $500"
        /\ RLt(RawValue(ret.out.value_components), R(0)) =>
              /\ ret.out.estimated_value = R(0)
              /\ ret.out.value_range = "Under $100"

\* C15 witness: an estimate of exactly 100 was labelled
C15_Witness ==
    /\ ret.op = "get_domain_value_estimate" /\ ~ret.out.empty
    /\ ret.out.estimated_value = R(100)
    /\ ret.out.value_range = "$100 - $500"

\* the verdict of an overall score: >80, >60, >40, otherwise
Bracket(x) ==
    CASE RLt(R(80), x) -> "excellent"
      [] RLe(x, R(80)) /\ RLt(R(60), x) -> "good"
      [] RLe(x, R(60)) /\ RLt(R(40), x) -> "moderate"
      [] OTHER -> "low"

\* C18: every recommendations list of a breakdown holds exactly one closing
\* verdict, as its last element, and it is the verdict of the bracket of the
\* breakdown's own overall_score, for records lacking domain_authority too
C18_OneClosingVerdict ==
    (ret.op = "get_score_breakdown" /\ ~ret.out.empty) =>
        LET recs == ret.out.recommendations
        IN  /\ Cardinality({i \in DOMAIN recs : recs[i] \in Verdicts}) = 1
            /\ Last(recs) = Bracket(ret.out.overall_score)

\* C19: for one record and the stored weights, the overall_score of
\* get_score_breakdown is what calculate_score returns without custom
\* weights, and is the clamp to [0,100] of seo + content + brandability
\* - spam_penalty contributions, each the component score times the
\* returned weight
C19_BreakdownAgreesWithScore ==
    (ret.op = "get_score_breakdown" /\ ~ret.out.empty) =>
        LET c == ret.out.weighted_contributions
            total == RSub(RAdd(RAdd(c.seo, c.content), c.brandability),
                          c.spam_penalty)
        IN  /\ ret.out.overall_score = calculate_score(RetDetails, Stored).value
            /\ ret.out.overall_score = RMax(R(0), RMin(R(100), total))
            /\ \A k \in required_keys :
                  c[k] = RMul(ret.out.component_scores[k], ret.out.weights[k])

\* C19 witness: a breakdown under weights installed by update_weights whose
\* weighted sum is negative and whose overall_score is 0
C19_Witness ==
    /\ ret.op = "get_score_breakdown" /\ ~ret.out.empty
    /\ self_weights = "arg"
    /\ RLt(WeightedSum(ret.out.component_scores, ret.out.weights), R(0))
    /\ ret.out.overall_score = R(0)
    /\ calculate_score(RetDetails, Stored).value = R(0)

\* the trust/citation ratio penalty, in integers: 20 below 0.3, 10 from 0.3
\* to below 0.5, nothing when either flow is zero or absent
RatioPenalty(dd) ==
    IF ~Truthy(dd, "trust_flow") \/ ~Truthy(dd, "citation_flow") THEN 0
    ELSE LET tf == dd.val["trust_flow"]
             cf == dd.val["citation_flow"]
         IN  CASE 10 * tf < 3 * cf -> 20
               [] 10 * tf >= 3 * cf /\ 2 * tf < cf -> 10
               [] OTHER -> 0

\* C20: the spam penalty is min(100, s + 0.5*s + r) for the record's one
\* spam_score s and the ratio penalty r, the two tiers of r never adding
\* up, and it lies in [0,100]
C20_SpamPenaltyFormula ==
    (ret.op = "get_score_breakdown" /\ ~ret.out.empty) =>
        LET s == Get(RetDetails, "spam_score", 0)
            r == RatioPenalty(RetDetails)
        IN  /\ ret.out.component_scores.spam_penalty
                  = RMin(R(100), Rat(2 * s + s + 2 * r, 2))
            /\ r \in {0, 10, 20}
            /\ InRange(ret.out.component_scores.spam_penalty)

\* C20 witness: a ratio below 0.3 with a spam score of 20 gave 20 + 10 + 20
C20_Witness ==
    /\ ret.op = "get_score_breakdown" /\ ~ret.out.empty
    /\ Get(RetDetails, "spam_score", 0) = 20
    /\ RatioPenalty(RetDetails) = 20
    /\ ret.out.component_scores.spam_penalty = R(50)

(***************************************************************************)
(* content_analyzer.py.  Texts are strings; an argument that may be None   *)
(* is << >> for None and <<s>> for the string s.                           *)
(***************************************************************************)
None == << >>

\* (x or "")
OrEmpty(x) == IF x = None THEN "" ELSE x[1]

At(s, i) == SubSeq(s, i, i)

Chars(s) == {At(s, i) : i \in 1..Len(s)}

Whitespace == Chars(" \t\n")

\* str.lower on ASCII
LowerOf ==
    [c \in Chars("ABCDEFGHIJKLMNOPQRSTUVWXYZ") |->
        LET i == CHOOSE j \in 1..26 : At("ABCDEFGHIJKLMNOPQRSTUVWXYZ", j) = c
        IN  At("abcdefghijklmnopqrstuvwxyz", i)]

RECURSIVE lower(_)
lower(s) ==
    IF Len(s) = 0 THEN ""
    ELSE IF Len(s) = 1 THEN (IF s \in DOMAIN LowerOf THEN LowerOf[s] ELSE s)
    ELSE LET h == Len(s) \div 2
         IN  lower(SubSeq(s, 1, h)) \o lower(SubSeq(s, h + 1, Len(s)))

\* not s.strip()
IsBlank(s) == \A i \in 1..Len(s) : At(s, i) \in Whitespace

\* s.count(sub): non-overlapping occurrences, found left to right
count(s, sub) ==
    LET n == Len(sub)
        found == {i \in 1..(Len(s) - n + 1) : SubSeq(s, i, i + n - 1) = sub}
        RECURSIVE from(_)
        from(i) ==
            LET later == {p \in found : p >= i}
            IN  IF later = {} THEN 0
                ELSE 1 + from((CHOOSE p \in later : \A q \in later : p <= q) + n)
    IN  from(1)

\* s.split(): the maximal runs of non-whitespace characters
RECURSIVE split(_)
split(s) ==
    IF Len(s) = 0 THEN << >>
    ELSE IF Len(s) = 1 THEN (IF s \in Whitespace THEN << >> ELSE <<s>>)
    ELSE LET h == Len(s) \div 2
             l == split(SubSeq(s, 1, h))
             r == split(SubSeq(s, h + 1, Len(s)))
         IN  IF At(s, h) \in Whitespace \/ At(s, h + 1) \in Whitespace
             THEN l \o r
             ELSE SubSeq(l, 1, Len(l) - 1) \o <<l[Len(l)] \o r[1]>> \o Tail(r)

\* sum(content.count(k) for k in phrases)
Occurrences(content, phrases) ==
    LET RECURSIVE upto(_)
        upto(i) == IF i = 0 THEN 0 ELSE upto(i - 1) + count(content, phrases[i])
    IN  upto(Len(phrases))

\* (historical_content or "") + " " + (current_content or "")
Combined(historical_content, current_content) ==
    OrEmpty(historical_content) \o " " \o OrEmpty(current_content)

\* lines 145-155, in declaration order
niche_keywords ==
    << <<"Technology", <<"technology", "software", "programming", "development",
           "tech", "app", "digital", "code", "computer", "internet">> >>,
       <<"Health", <<"health", "medical", "fitness", "wellness", "nutrition",
           "doctor", "medicine", "healthcare", "diet", "exercise">> >>,
       <<"Finance", <<"finance", "money", "investment", "banking", "trading",
           "cryptocurrency", "financial", "loan", "credit", "insurance">> >>,
       <<"Travel", <<"travel", "vacation", "hotel", "flight", "tourism",
           "destination", "trip", "adventure", "explore", "journey">> >>,
       <<"Education", <<"education", "learning", "school", "university", "course",
           "student", "teaching", "academic", "study", "knowledge">> >>,
       <<"Entertainment", <<"entertainment", "movie", "music", "game", "celebrity",
           "news", "sports", "fun", "show", "media">> >>,
       <<"Business", <<"business", "entrepreneur", "startup", "company",
           "marketing", "sales", "corporate", "management", "strategy",
           "success">> >>,
       <<"Food", <<"food", "recipe", "cooking", "restaurant", "cuisine", "chef",
           "meal", "ingredients", "kitchen", "dining">> >>,
       <<"Fashion", <<"fashion", "style", "clothing", "designer", "trend", "outfit",
           "beauty", "accessories", "brand", "wardrobe">> >> >>

\* lines 158-163: niche_scores, in declaration order
niche_scores(content) ==
    [i \in 1..Len(niche_keywords) |->
        Occurrences(lower(content), niche_keywords[i][2])]

\* the choice in which a later niche with an equal score replaces the
\* running best
MaxKey_last_wins(scores) ==
    LET RECURSIVE best(_)
        best(i) == IF i = 1 THEN 1
                   ELSE LET b == best(i - 1)
                        IN  IF scores[i] >= scores[b] THEN i ELSE b
    IN  best(Len(scores))

\* max(niche_scores, key=niche_scores.get): the running best is replaced
\* only by a strictly higher score
MaxKey(scores) ==
    LET RECURSIVE best(_)
        best(i) == IF i = 1 THEN 1
                   ELSE LET b == best(i - 1)
                        IN  IF scores[i] > scores[b] THEN i ELSE b
    IN  best(Len(scores))

\* lines 137-173
_identify_niche(historical_content, current_content) ==
    LET content == Combined(historical_content, current_content)
        scores == niche_scores(content)
        top == MaxKey(scores)
    IN  IF IsBlank(content) THEN "Unknown"
        ELSE IF scores[top] > 0 THEN niche_keywords[top][1] ELSE "General"

Max(S) == CHOOSE x \in S : \A y \in S : y <= x

\* word_freq.most_common(1)[0][1]
MostCommonCount(words) ==
    LET distinct == {words[i] : i \in DOMAIN words}
    IN  Max({Cardinality({i \in DOMAIN words : words[i] = w}) : w \in distinct})

\* lines 230-234
spam_keywords ==
    <<"buy now", "click here", "free money", "guaranteed", "limited time",
      "act now", "no questions asked", "risk free", "special offer",
      "amazing deal", "once in a lifetime", "get rich quick">>

\* the score of lines 236-258 with its last line `return spam_score`
_calculate_spam_score_unclamped(historical_content, current_content) ==
    LET content == Combined(historical_content, current_content)
        content_lower == lower(content)
        caps == Cardinality({i \in 1..Len(content) : At(content, i) \in DOMAIN LowerOf})
        punct == Cardinality({i \in 1..Len(content) : At(content, i) \in Chars("!?")})
        words == split(content_lower)
    IN  IF IsBlank(content) THEN 0
        ELSE Occurrences(content_lower, spam_keywords) * 10
             + (IF caps * 10 > Len(content) THEN 20 ELSE 0)
             + (IF punct * 20 > Len(content) THEN 15 ELSE 0)
             + (IF Len(words) > 100 /\ MostCommonCount(words) * 10 > Len(words)
                THEN 25 ELSE 0)

\* lines 218-261
_calculate_spam_score(historical_content, current_content) ==
    LET content == Combined(historical_content, current_content)
        content_lower == lower(content)
        spam_count == Occurrences(content_lower, spam_keywords)
        caps == Cardinality({i \in 1..Len(content) : At(content, i) \in DOMAIN LowerOf})
        punct == Cardinality({i \in 1..Len(content) : At(content, i) \in Chars("!?")})
        words == split(content_lower)
        spam_score ==
            spam_count * 10
            + (IF caps * 10 > Len(content) THEN 20 ELSE 0)
            + (IF punct * 20 > Len(content) THEN 15 ELSE 0)
            + (IF Len(words) > 100 /\ MostCommonCount(words) * 10 > Len(words)
               THEN 25 ELSE 0)
    IN  IF IsBlank(content) THEN 0
        ELSE IF spam_score > 100 THEN 100 ELSE spam_score

\* domain.split('.')[0]
FirstLabel(domain) ==
    LET dots == {i \in 1..Len(domain) : At(domain, i) = "."}
    IN  IF dots = {} THEN domain
        ELSE SubSeq(domain, 1, (CHOOSE i \in dots : \A j \in dots : i <= j) - 1)

\* line 294
common_words ==
    <<"tech", "web", "digital", "smart", "pro", "express", "global", "prime">>

\* line 299
spam_patterns == <<"xxx", "zzz", "123", "abc">>

\* any(p in domain_name for p in patterns)
AnyIn(patterns, domain_name) ==
    \E i \in DOMAIN patterns : count(domain_name, patterns[i]) > 0

\* the score with its last line `return brandability_score`
brandability_unclamped(domain) ==
    IF domain = None THEN 50
    ELSE LET domain_name == lower(FirstLabel(domain[1]))
             length == Len(domain_name)
             vowels == Cardinality({i \in 1..length :
                                      At(domain_name, i) \in Chars("aeiou")})
         IN  50
             + (IF 4 <= length /\ length <= 8 THEN 20
                ELSE IF 9 <= length /\ length <= 12 THEN 10
                ELSE IF length > 15 THEN -20 ELSE 0)
             + (IF /\ vowels > 0 /\ length - vowels > 0
                   /\ 5 * vowels >= length /\ 5 * vowels <= 3 * length
                THEN 15 ELSE 0)
             - (IF Chars(domain_name) \cap Chars("0123456789") # {}
                THEN 15 ELSE 0)
             - (IF "-" \in Chars(domain_name) THEN 10 ELSE 0)
             + (IF AnyIn(common_words, domain_name) THEN 10 ELSE 0)
             - (IF AnyIn(spam_patterns, domain_name) THEN 25 ELSE 0)

\* the score with the dictionary bonus granted once per dictionary word
brandability_per_word(domain) ==
    IF domain = None THEN 50
    ELSE LET domain_name == lower(FirstLabel(domain[1]))
             length == Len(domain_name)
             vowels == Cardinality({i \in 1..length :
                                      At(domain_name, i) \in Chars("aeiou")})
             score ==
                 50
                 + (IF 4 <= length /\ length <= 8 THEN 20
                    ELSE IF 9 <= length /\ length <= 12 THEN 10
                    ELSE IF length > 15 THEN -20 ELSE 0)
                 + (IF /\ vowels > 0 /\ length - vowels > 0
                       /\ 5 * vowels >= length /\ 5 * vowels <= 3 * length
                    THEN 15 ELSE 0)
                 - (IF Chars(domain_name) \cap Chars("0123456789") # {}
                    THEN 15 ELSE 0)
                 - (IF "-" \in Chars(domain_name) THEN 10 ELSE 0)
                 + 10 * Cardinality({i \in DOMAIN common_words :
                                        count(domain_name, common_words[i]) > 0})
                 - (IF AnyIn(spam_patterns, domain_name) THEN 25 ELSE 0)
         IN  IF score < 0 THEN 0 ELSE IF score > 100 THEN 100 ELSE score

\* ContentAnalyzer._calculate_brandability_score, lines 263-307; a domain
\* that is not a string has no split(): the AttributeError is caught and
\* gives 50
brandability(domain) ==
    IF domain = None THEN 50
    ELSE LET domain_name == lower(FirstLabel(domain[1]))
             length == Len(domain_name)
             vowels == Cardinality({i \in 1..length :
                                      At(domain_name, i) \in Chars("aeiou")})
             consonants == length - vowels
             score ==
                 50
                 + (IF 4 <= length /\ length <= 8 THEN 20
                    ELSE IF 9 <= length /\ length <= 12 THEN 10
                    ELSE IF length > 15 THEN -20 ELSE 0)
                 + (IF /\ vowels > 0 /\ consonants > 0
                       /\ 5 * vowels >= length /\ 5 * vowels <= 3 * length
                    THEN 15 ELSE 0)
                 - (IF Chars(domain_name) \cap Chars("0123456789") # {}
                    THEN 15 ELSE 0)
                 - (IF "-" \in Chars(domain_name) THEN 10 ELSE 0)
                 + (IF AnyIn(common_words, domain_name) THEN 10 ELSE 0)
                 - (IF AnyIn(spam_patterns, domain_name) THEN 25 ELSE 0)
         IN  IF score < 0 THEN 0 ELSE IF score > 100 THEN 100 ELSE score


\* sum(...) over a sequence of numbers
RECURSIVE SeqSum(_)
SeqSum(xs) ==
    IF Len(xs) = 0 THEN 0
    ELSE IF Len(xs) = 1 THEN xs[1]
    ELSE LET h == Len(xs) \div 2
         IN  SeqSum(SubSeq(xs, 1, h)) + SeqSum(SubSeq(xs, h + 1, Len(xs)))

Punctuation == Chars(".,;:!?")

SentenceEnd == Chars(".!?")

\* nltk's sent_tokenize, as far as the analyzer depends on it: the number
\* of sentences.  A sentence ends at a whitespace-delimited token that
\* ends in '.', '!' or '?'; text after the last such token is a sentence
\* of its own.  Every token belongs to exactly one sentence.
SentenceCount(content) ==
    LET toks == split(content)
        ends == {i \in DOMAIN toks : At(toks[i], Len(toks[i])) \in SentenceEnd}
    IN  Cardinality(ends) + (IF Len(toks) > 0 /\ Len(toks) \notin ends THEN 1 ELSE 0)

\* the part of a whitespace-delimited token before its trailing punctuation
Core(t) ==
    LET inner == {i \in 1..Len(t) : At(t, i) \notin Punctuation}
    IN  IF inner = {} THEN "" ELSE SubSeq(t, 1, Max(inner))

\* len(word_tokenize(content)): every trailing punctuation character of a
\* whitespace-delimited token is a token of its own
WordCount(content) ==
    LET toks == split(content)
    IN  SeqSum([i \in DOMAIN toks |->
                  (IF Core(toks[i]) = "" THEN 0 ELSE 1)
                  + Len(toks[i]) - Len(Core(toks[i]))])

\* sum(len(word) for word in word_tokenize(content))
WordChars(content) ==
    LET toks == split(content)
    IN  SeqSum([i \in DOMAIN toks |-> Len(toks[i])])

\* line 202
spam_indicators ==
    <<"click here", "buy now", "guaranteed", "free money", "limited time", "act now">>

\* line 207
educational_indicators ==
    <<"learn", "guide", "tutorial", "how to", "step by step", "explanation">>

\* lines 175-216; punkt says whether the sentence tokenizer's data is
\* installed: without it sent_tokenize raises LookupError and the except
\* clause of line 214 answers 50
_assess_content_quality(historical_content, current_content, punkt) ==
    LET content == Combined(historical_content, current_content)
        content_length == Len(split(content))
        sentences == SentenceCount(content)
        quality_score ==
            50
            + (IF content_length > 500 THEN 10
               ELSE IF content_length > 200 THEN 5
               ELSE IF content_length < 50 THEN -20 ELSE 0)
            + (IF /\ sentences > 10
                  /\ 10 * sentences <= content_length
                  /\ content_length <= 25 * sentences
               THEN 10 ELSE 0)
            - Occurrences(lower(content), spam_indicators) * 5
            + Occurrences(lower(content), educational_indicators) * 3
    IN  IF IsBlank(content) THEN 0
        ELSE IF ~punkt THEN 50
        ELSE IF quality_score < 0 THEN 0
        ELSE IF quality_score > 100 THEN 100 ELSE quality_score

\* stopwords.words('english'): the entries that occur in the analysed texts
stop_words == {"the", "and", "for", "with", "are", "was", "this", "that", "you"}

\* word.isalpha() for ASCII text
IsAlpha(word) ==
    /\ Len(word) > 0
    /\ \A i \in 1..Len(word) : At(word, i) \in Chars("abcdefghijklmnopqrstuvwxyz")
                                 \/ At(word, i) \in DOMAIN LowerOf

\* word_freq.most_common(n): by falling count, equal counts in the order
\* of first occurrence
most_common(words, n) ==
    LET distinct == {words[i] : i \in DOMAIN words}
        freq == [w \in distinct |-> Cardinality({i \in DOMAIN words : words[i] = w})]
        first == [w \in distinct |-> CHOOSE i \in DOMAIN words :
                      words[i] = w /\ \A j \in 1..(i - 1) : words[j] # w]
        rank == [w \in distinct |->
                    1 + Cardinality({v \in distinct :
                          \/ freq[v] > freq[w]
                          \/ freq[v] = freq[w] /\ first[v] < first[w]})]
    IN  [k \in 1..Min(n, Cardinality(distinct)) |->
            CHOOSE w \in distinct : rank[w] = k]

\* lines 309-336; without the tokenizer's data word_tokenize raises and
\* the except clause of line 334 answers []
_extract_keywords(historical_content, current_content, punkt) ==
    LET content == Combined(historical_content, current_content)
        toks == split(lower(content))
        words == [i \in DOMAIN toks |-> Core(toks[i])]
        Kept(word) == IsAlpha(word) /\ word \notin stop_words /\ Len(word) > 2
    IN  IF IsBlank(content) \/ ~punkt THEN << >>
        ELSE most_common(SelectSeq(words, Kept), 20)

\* line 347
english_words ==
    <<"the", "and", "or", "but", "in", "on", "at", "to", "for", "of", "with",
      "by", "is", "are", "was", "were">>

\* lines 338-359
_detect_language(historical_content, current_content) ==
    LET content == Combined(historical_content, current_content)
    IN  IF IsBlank(content) THEN "unknown"
        ELSE IF Occurrences(lower(content), english_words) > 10 THEN "english"
        ELSE "unknown"

\* lines 361-380, for an analyzer whose constructor found no VADER lexicon
\* (self.sentiment_analyzer is None, line 32): line 366 answers the
\* neutral scores for every content
_analyze_sentiment(historical_content, current_content) ==
    [positive |-> 0, negative |-> 0, neutral |-> 1, compound |-> 0]

\* lines 382-409: int(max(0, min(100, 206.835 - 1.015 * W/S - 84.6 * C/W)))
\* for W tokens, S sentences and C token characters, in thousandths over
\* the common denominator S * W.  84.6 * C/W alone exceeds 206.835 once
\* 846 * C >= 2069 * W.
_calculate_readability(historical_content, current_content, punkt) ==
    LET content == Combined(historical_content, current_content)
        S == SentenceCount(content)
        W == WordCount(content)
        C == WordChars(content)
        num == 206835 * S * W - 1015 * W * W - 84600 * C * S
        den == 1000 * S * W
    IN  IF IsBlank(content) THEN 0
        ELSE IF ~punkt THEN 50
        ELSE IF S = 0 \/ W = 0 THEN 0
        ELSE IF 846 * C >= 2069 * W \/ num <= 0 THEN 0
        ELSE IF num >= 100 * den THEN 100
        ELSE num \div den

\* historical_content[:1000] if historical_content else None
Excerpt(historical_content) ==
    IF historical_content = None \/ historical_content[1] = "" THEN None
    ELSE <<SubSeq(historical_content[1], 1, Min(1000, Len(historical_content[1])))>>

\* the dict of lines 72-82
Analysis(domain, historical_content, current_content, punkt) ==
    [niche |-> _identify_niche(historical_content, current_content),
     content_quality |-> _assess_content_quality(historical_content, current_content, punkt),
     spam_score |-> _calculate_spam_score(historical_content, current_content),
     brandability_score |-> brandability(domain),
     keywords |-> _extract_keywords(historical_content, current_content, punkt),
     historical_content |-> Excerpt(historical_content),
     language |-> _detect_language(historical_content, current_content),
     sentiment |-> _analyze_sentiment(historical_content, current_content),
     readability |-> _calculate_readability(historical_content, current_content, punkt)]

\* ---------------------------------------------------------------------------
\* ContentAnalyzer.analyze_domain on the names and the pages it can meet
\* ---------------------------------------------------------------------------

MaxParts == 3
MaxCalls == 2

\* the pieces domain labels are put together from
Fragments ==
    {"tech", "pro", "Web", "strpro", "a", "1", "-", "zzz", "bcdfghjk", "zzz-1abc"}

RECURSIVE Labels(_)
Labels(n) ==
    IF n = 0 THEN {""}
    ELSE Labels(n - 1) \cup {l \o f : l \in Labels(n - 1), f \in Fragments}

\* the domain argument: a name, or a value that is not a string
Domains == {<<l \o ".com">> : l \in Labels(MaxParts)} \cup {<<"localhost">>, None}

RECURSIVE Repeat(_, _)
Repeat(s, n) ==
    IF n = 1 THEN s ELSE Repeat(s, n \div 2) \o Repeat(s, n - (n \div 2))

\* what trafilatura.extract can hand back for a page
Texts ==
    {"", " \n ",
     "investment banking trading financial",
     "a recipe for software",
     "software from a recipe book, health and diet, health",
     "hello world",
     Repeat("buy now ", 15),
     "CLICK HERE!!! FREE MONEY",
     "Is it so? No way!! Act now, risk free?! Guaranteed!",
     Repeat("aa ", 101),
     Repeat("ab cd ef gh ij kl mn op qr st uv wx ", 9),
     Repeat("We do learn it all now and go on to be ok. ", 10),
     Repeat("We do learn it all now and go on to be ok. ", 11)}

Contents == {None} \cup {<<t>> : t \in Texts}

\* _get_wayback_content and _get_current_content, lines 90-135: each
\* answers the extracted text or None; only techpro.com was ever archived
\* or is still served
Fetched(domain) ==
    IF domain = <<"techpro.com">> THEN Contents \X Contents
    ELSE {<<None, None>>}

\* a later request finds the pages as they were, or gone
Refetched(historical_content, current_content) ==
    {<<historical_content, current_content>>, <<None, None>>}

\* lines 60-88: no helper lets an exception out, so the except clause of
\* line 86 is never entered
AnalyzeDomain ==
    /\ analyzed = NoAnalysis
    /\ disc = NoDiscovery
    /\ \E domain \in Domains, punkt \in BOOLEAN :
         \E f \in Fetched(domain) :
            analyzed' = [pc |-> "returned", domain |-> domain, punkt |-> punkt,
                         historical_content |-> f[1], current_content |-> f[2],
                         out |-> Analysis(domain, f[1], f[2], punkt),
                         calls |-> 1, prev |-> NoAnalysis]
    /\ UNCHANGED <<db, heap, self_weights, ret, raceVars, mockVars, disc>>

\* the same analyzer is asked about the same domain again
AnalyzeAgain ==
    /\ analyzed # NoAnalysis
    /\ analyzed.calls < MaxCalls
    /\ \E f \in Refetched(analyzed.historical_content, analyzed.current_content) :
         analyzed' = [analyzed EXCEPT
                        !.historical_content = f[1], !.current_content = f[2],
                        !.out = Analysis(analyzed.domain, f[1], f[2], analyzed.punkt),
                        !.calls = @ + 1,
                        !.prev = [pc |-> "returned",
                                  historical_content |-> analyzed.historical_content,
                                  current_content |-> analyzed.current_content,
                                  out |-> analyzed.out]]
    /\ UNCHANGED <<db, heap, self_weights, ret, raceVars, mockVars, disc>>

NextContent ==
    \/ AnalyzeDomain
    \/ AnalyzeAgain

SpecContent == Init /\ [][NextContent]_vars

\* ---------------------------------------------------------------------------
\* Properties of the content analysis
\* ---------------------------------------------------------------------------

Returned == analyzed # NoAnalysis

Within(x, lo, hi) == lo <= x /\ x <= hi

NoText(a) == a.historical_content = None /\ a.current_content = None

\* C11: when neither historical nor current text is available,
\* analyze_domain returns the seeded mock bundle (niche one of the nine,
\* content_quality in 30..95, spam_score in 0..30, brandability_score in
\* 40..90, readability in 60..90, 5 to 10 keywords), and two such calls
\* for the same name return identical bundles
C11_NoTextGivesMockBundle ==
    (Returned /\ NoText(analyzed)) =>
        /\ \E i \in DOMAIN niches : analyzed.out.niche = niches[i]
        /\ Within(analyzed.out.content_quality, 30, 95)
        /\ Within(analyzed.out.spam_score, 0, 30)
        /\ Within(analyzed.out.brandability_score, 40, 90)
        /\ Within(analyzed.out.readability, 60, 90)
        /\ Within(Len(analyzed.out.keywords), 5, 10)
        /\ (analyzed.prev # NoAnalysis /\ NoText(analyzed.prev))
              => analyzed.out = analyzed.prev.out

\* C13: the brandability heuristic answers an integer in [0,100] for
\* every input; 50 for an empty label and 50 for a non-string
C13_BrandabilityInRange ==
    Returned =>
        /\ analyzed.out.brandability_score \in 0..100
        /\ analyzed.domain = None => analyzed.out.brandability_score = 50
        /\ (analyzed.domain # None /\ FirstLabel(analyzed.domain[1]) = "")
              => analyzed.out.brandability_score = 50

C13_Witness ==
    /\ Returned
    /\ analyzed.domain = None
    /\ analyzed.out.brandability_score = 50

\* the labels C14 speaks of
CleanDictionaryLabel(label) ==
    /\ Within(Len(label), 4, 8)
    /\ Chars(label) \cap Chars("0123456789-") = {}
    /\ ~AnyIn(spam_patterns, label)
    /\ AnyIn(common_words, label)

VowelBonus(label) ==
    LET v == Cardinality({i \in 1..Len(label) : At(label, i) \in Chars("aeiou")})
    IN  IF v > 0 /\ v < Len(label) /\ 5 * v >= Len(label) /\ 5 * v <= 3 * Len(label)
        THEN 15 ELSE 0

\* C14: a label of length 4 to 8 with no digit, no hyphen, no spam
\* pattern and at least one dictionary word scores at least 80; the
\* dictionary bonus is +10 once however many dictionary words it holds,
\* so the score is 50 + 20 + 10 plus the vowel bonus
C14_DictionaryLabelScore ==
    (Returned /\ analyzed.domain # None) =>
        LET label == lower(FirstLabel(analyzed.domain[1]))
        IN  CleanDictionaryLabel(label) =>
               /\ analyzed.out.brandability_score >= 80
               /\ analyzed.out.brandability_score = 80 + VowelBonus(label)

C14_Witness ==
    /\ Returned
    /\ analyzed.domain = <<"techpro.com">>
    /\ analyzed.out.brandability_score = 95

\* the niche C16 names for a combined text
NicheByCounts(content) ==
    LET counts == niche_scores(content)
        top == Max({counts[i] : i \in DOMAIN counts})
        firstTop == CHOOSE i \in DOMAIN counts :
                        counts[i] = top /\ \A j \in 1..(i - 1) : counts[j] < top
    IN  IF IsBlank(content) THEN "Unknown"
        ELSE IF top = 0 THEN "General"
        ELSE niches[firstTop]

OnlyFinance(content) ==
    LET counts == niche_scores(content)
    IN  \A i \in DOMAIN counts : (counts[i] > 0) <=> (niches[i] = "Finance")

\* C16: the niche is 'Unknown' for an empty or whitespace text, 'General'
\* when every count is zero, otherwise the niche with the highest count,
\* the first declared one on a tie; a text with only Finance counts is
\* 'Finance'
C16_NicheByHighestCount ==
    Returned =>
        LET content == Combined(analyzed.historical_content, analyzed.current_content)
        IN  /\ analyzed.out.niche = NicheByCounts(content)
            /\ (~IsBlank(content) /\ OnlyFinance(content))
                  => analyzed.out.niche = "Finance"

C16_Witness ==
    /\ Returned
    /\ analyzed.historical_content = <<"a recipe for software">>
    /\ analyzed.current_content = None
    /\ analyzed.out.niche = "Technology"

\* the right-hand side of C17 before min(100, .)
SpamPoints(content) ==
    LET n == Occurrences(lower(content), spam_keywords)
        upper == Cardinality({i \in 1..Len(content) : At(content, i) \in DOMAIN LowerOf})
        marks == Cardinality({i \in 1..Len(content) : At(content, i) \in Chars("!?")})
        tokens == split(lower(content))
    IN  10 * n
        + (IF 10 * upper > Len(content) THEN 20 ELSE 0)
        + (IF 20 * marks > Len(content) THEN 15 ELSE 0)
        + (IF Len(tokens) > 100 /\ 10 * MostCommonCount(tokens) > Len(tokens)
           THEN 25 ELSE 0)

\* C17: the spam score is min(100, 10n + 20[uppercase ratio > 0.10]
\* + 15[!/? ratio > 0.05] + 25[more than 100 tokens and the most frequent
\* one above 10% of them]); it lies in [0,100] and is 100 when n >= 10
C17_SpamScoreFormula ==
    Returned =>
        LET content == Combined(analyzed.historical_content, analyzed.current_content)
        IN  /\ analyzed.out.spam_score = Min(100, SpamPoints(content))
            /\ analyzed.out.spam_score \in 0..100
            /\ Occurrences(lower(content), spam_keywords) >= 10
                  => analyzed.out.spam_score = 100

C17_Witness ==
    /\ Returned
    /\ analyzed.historical_content = <<Repeat("buy now ", 15)>>
    /\ analyzed.current_content = None
    /\ analyzed.out.spam_score = 100

(***************************************************************************)
(* The SEO and content sub-scores as functions of the record handed to     *)
(* them: a record is drawn, and each sub-score is computed from it.        *)
(***************************************************************************)
\* a dict with these entries; a key of `keys` that has no entry holds None
Details(keys, val) == [found |-> TRUE, keys |-> keys, val |-> val]

Compounds == {Rat(-1, 1), Rat(-1, 2), R(0), Rat(1, 100), Rat(1, 2), R(1)}

\* records with any of the four content fields left out, and a niche that
\* is None
ContentDetails ==
    { Details({"niche"},
              [k \in has |->
                 CASE k = "content_quality" -> q
                   [] k = "niche" -> n
                   [] k = "readability" -> r
                   [] k = "sentiment" -> c]) :
      has \in SUBSET {"content_quality", "niche", "readability", "sentiment"},
      q \in {0, 50, 100},
      n \in {"Technology", "Finance", "Health", "Business", "Education", "Travel",
             "General", "Unknown"},
      r \in {0, 60, 100},
      c \in Compounds }

\* records holding all five scored metrics
SeoDetails ==
    { Details({},
              [domain_authority |-> da, backlinks |-> bl, referring_domains |-> rd,
               trust_flow |-> tf, organic_traffic |-> ot]) :
      da \in {0, 50, 100}, bl \in {0, 9, 9999, Big}, rd \in {0, 999, Big},
      tf \in {0, 100}, ot \in {0, 999999, Big} }

InitSubScores ==
    /\ db = [domains |-> << >>, seo |-> << >>, content |-> << >>]
    /\ heap = [init |-> DefaultWeights, arg |-> << >>, spare |-> << >>]
    /\ self_weights = "init"
    /\ ret \in {[op |-> "details", dd |-> d] : d \in ContentDetails \cup SeoDetails}
    /\ ThreadsIdle
    /\ MockIdle
    /\ analyzed = NoAnalysis
    /\ disc = NoDiscovery

CalculateSeoScore ==
    /\ ret.op = "details"
    /\ ret' = [op |-> "_calculate_seo_score", dd |-> ret.dd,
               out |-> _calculate_seo_score(ret.dd)]
    /\ UNCHANGED <<db, heap, self_weights, raceVars, mockVars, analyzed, disc>>

CalculateContentScore ==
    /\ ret.op = "details"
    /\ ret' = [op |-> "_calculate_content_score", dd |-> ret.dd,
               out |-> _calculate_content_score(ret.dd)]
    /\ UNCHANGED <<db, heap, self_weights, raceVars, mockVars, analyzed, disc>>

NextSubScores ==
    \/ CalculateSeoScore
    \/ CalculateContentScore

SpecSubScores == InitSubScores /\ [][NextSubScores]_vars

\* d.get(k), with 0 standing for an absent or None number
Held(dd, k) == IF k \in DOMAIN dd.val THEN dd.val[k] ELSE 0

NicheBonus(dd) ==
    IF "niche" \notin DOMAIN dd.val \/ dd.val["niche"] = "Unknown" THEN 0
    ELSE IF dd.val["niche"] \in
              {"Technology", "Finance", "Health", "Business", "Education"}
    THEN 30 ELSE 20

CompoundBonus(dd) ==
    IF "sentiment" \in DOMAIN dd.val /\ RLt(R(0), dd.val["sentiment"])
    THEN RMul(R(10), dd.val["sentiment"]) ELSE R(0)

\* C21: the content sub-score is contentQuality/100*40 + nicheBonus
\* + readability/100*20 + (10*compound when compound > 0), with nicheBonus
\* 30 for the five high-value niches, 20 for any other niche that is not
\* 'Unknown', 0 for 'Unknown' or an absent niche; for quality and
\* readability in 0..100 and compound in [-1,1] it lies in [0,100]
C21_ContentScoreFormula ==
    ret.op = "_calculate_content_score" =>
        /\ ret.out = RAdd(RAdd(Rat(Held(ret.dd, "content_quality") * 40, 100),
                               R(NicheBonus(ret.dd))),
                          RAdd(Rat(Held(ret.dd, "readability") * 20, 100),
                               CompoundBonus(ret.dd)))
        /\ RLe(R(0), ret.out) /\ RLe(ret.out, R(100))

C21_Witness ==
    /\ ret.op = "_calculate_content_score"
    /\ DOMAIN ret.dd.val = {"content_quality", "niche", "readability", "sentiment"}
    /\ ret.dd.val["niche"] = "Travel"
    /\ ret.dd.val["sentiment"] = Rat(-1, 2)
    /\ ret.out = R(72)

\* the most a count can contribute
CountCap(dd, k, cap) == IF Held(dd, k) > 0 THEN cap ELSE 0

\* C22: for authority and trust flow in 0..100 and non-negative counts the
\* SEO sub-score lies in [0,100]; backlinks, referring domains and organic
\* traffic contribute at most 25, 20 and 10 however large the counts, and
\* 0 when the count is 0
C22_SeoScoreBounded ==
    (ret.op = "_calculate_seo_score" /\ ret.dd \in SeoDetails) =>
        LET fixed == Rat(ret.dd.val["domain_authority"] * 30
                         + ret.dd.val["trust_flow"] * 15, 100)
        IN  /\ RLe(R(0), ret.out) /\ RLe(ret.out, R(100))
            /\ RLe(fixed, ret.out)
            /\ RLe(ret.out,
                   RAdd(fixed, R(CountCap(ret.dd, "backlinks", 25)
                                  + CountCap(ret.dd, "referring_domains", 20)
                                  + CountCap(ret.dd, "organic_traffic", 10))))

C22_Witness ==
    /\ ret.op = "_calculate_seo_score"
    /\ ret.dd \in SeoDetails
    /\ ret.dd.val["backlinks"] = Big
    /\ ret.dd.val["referring_domains"] = Big
    /\ ret.dd.val["organic_traffic"] = Big
    /\ ret.dd.val["domain_authority"] = 100
    /\ ret.dd.val["trust_flow"] = 100
    /\ ret.out = R(100)

\* the multiplier C23 names for a niche
ClaimedMultiplier ==
    [Technology |-> Rat(15, 10), Finance |-> Rat(20, 10), Health |-> Rat(18, 10),
     Business |-> Rat(13, 10), Education |-> Rat(12, 10), Travel |-> Rat(11, 10),
     Entertainment |-> R(1)]

\* C23: in every returned estimate, estimated_value = max(0, (base_value +
\* seo_value + content_value + brandability_value) * niche_multiplier
\* - spam_penalty) over its own value_components, with base_value 100,
\* content_value twice the content quality, brandability_value three times
\* the brandability, spam_penalty five times the spam score, and the
\* multiplier of the niche (1.0 for every niche outside the table)
C23_EstimateFromComponents ==
    (ret.op = "get_domain_value_estimate" /\ ~ret.out.empty) =>
        LET dd == RetDetails
            c == ret.out.value_components
            total == RAdd(RAdd(c.base_value, c.seo_value),
                          RAdd(c.content_value, c.brandability_value))
        IN  /\ ret.out.estimated_value =
                  RMax(R(0), RSub(RMul(total, c.niche_multiplier), c.spam_penalty))
            /\ c.base_value = R(100)
            /\ c.content_value = R(2 * dd.val["content_quality"])
            /\ c.brandability_value = R(3 * dd.val["brandability_score"])
            /\ c.spam_penalty = R(5 * dd.val["spam_score"])
            /\ c.niche_multiplier =
                  IF "niche" \in DOMAIN dd.val /\ dd.val["niche"] \in DOMAIN ClaimedMultiplier
                  THEN ClaimedMultiplier[dd.val["niche"]] ELSE R(1)

C23_Witness ==
    /\ ret.op = "get_domain_value_estimate"
    /\ ~ret.out.empty
    /\ ret.out.value_components.niche_multiplier = Rat(18, 10)
    /\ ret.out.value_components.spam_penalty = R(500)
    /\ ret.out.estimated_value = R(922)

\* the analysis dict handed to add_content_analysis held a readability and
\* a sentiment, with a page spam score other than the link spam score
FullAnalysisStored ==
    /\ \E m \in ValueMetrics, a \in NicheAnalyses : db = AnalysedDb(m, a)
    /\ db.seo[1]["spam_score"] # 55

QualityWithBonusFrom(content, least) ==
    LET W == Len(split(content))
        S == SentenceCount(content)
        q == 50
             + (IF W > 500 THEN 10 ELSE IF W > 200 THEN 5
                ELSE IF W < 50 THEN -20 ELSE 0)
             + (IF S >= least /\ 10 * S <= W /\ W <= 25 * S THEN 10 ELSE 0)
             - 5 * Occurrences(lower(content), spam_indicators)
             + 3 * Occurrences(lower(content), educational_indicators)
    IN  IF q < 0 THEN 0 ELSE IF q > 100 THEN 100 ELSE q

\* C24: content quality awards its +10 sentence-structure bonus whenever
\* the text has at least 10 sentences (exactly 10 included) and the mean
\* number of words per sentence is in [10,25], and never otherwise
C24_SentenceBonusFromTen ==
    (Returned /\ analyzed.punkt) =>
        LET content == Combined(analyzed.historical_content, analyzed.current_content)
        IN  ~IsBlank(content) =>
               analyzed.out.content_quality = QualityWithBonusFrom(content, 10)

\* the score C25 describes for a label: the vowel bonus needs a consonant
\* letter
BrandabilityByLetters(label) ==
    LET length == Len(label)
        vowels == Cardinality({i \in 1..length : At(label, i) \in Chars("aeiou")})
        consonants == Cardinality({i \in 1..length :
                          At(label, i) \in Chars("bcdfghjklmnpqrstvwxyz")})
        score ==
            50
            + (IF 4 <= length /\ length <= 8 THEN 20
               ELSE IF 9 <= length /\ length <= 12 THEN 10
               ELSE IF length > 15 THEN -20 ELSE 0)
            + (IF /\ vowels > 0 /\ consonants > 0
                  /\ 5 * vowels >= length /\ 5 * vowels <= 3 * length
               THEN 15 ELSE 0)
            - (IF Chars(label) \cap Chars("0123456789") # {} THEN 15 ELSE 0)
            - (IF "-" \in Chars(label) THEN 10 ELSE 0)
            + (IF AnyIn(common_words, label) THEN 10 ELSE 0)
            - (IF AnyIn(spam_patterns, label) THEN 25 ELSE 0)
    IN  IF score < 0 THEN 0 ELSE IF score > 100 THEN 100 ELSE score

\* C25: the +15 pronounceability bonus is granted exactly when the label
\* holds at least one vowel and at least one consonant letter and its
\* vowel ratio is in [0.2, 0.6]; a label whose only non-vowel characters
\* are digits or hyphens, such as 'a1', does not get it
C25_BonusNeedsConsonantLetter ==
    (Returned /\ analyzed.domain # None) =>
        analyzed.out.brandability_score =
            BrandabilityByLetters(lower(FirstLabel(analyzed.domain[1])))

(***************************************************************************)
(* The scorer and a caller that keeps the dicts it passed in or was        *)
(* handed: update_weights stores the caller's dict object itself (line     *)
(* 294) and get_score_breakdown returns self.weights itself (line 213).    *)
(***************************************************************************)
\* the value a caller writes into a dict it holds
CallerWrites == {R(0)}

\* scorer.update_weights(dict(scorer.weights))
UpdateWeightsWithCopy == UpdateWeights(Stored)

\* w[k] = v on the dict w that was passed to the last successful
\* update_weights: it is the object self.weights refers to
WriteGivenDict(k, v) ==
    /\ self_weights = "arg"
    /\ heap' = [heap EXCEPT !["arg"][k] = v]
    /\ ret' = [op |-> "caller_writes", obj |-> "arg", key |-> k]
    /\ UNCHANGED <<db, self_weights, raceVars, mockVars, analyzed, disc>>

\* breakdown['weights'][k] = v on the breakdown just returned
WriteBreakdownWeights(k, v) ==
    /\ ret.op = "get_score_breakdown"
    /\ ~ret.out.empty
    /\ heap' = [heap EXCEPT ![self_weights][k] = v]
    /\ ret' = [op |-> "caller_writes", obj |-> self_weights, key |-> k]
    /\ UNCHANGED <<db, self_weights, raceVars, mockVars, analyzed, disc>>

NextCallers ==
    \/ \E w \in RaceWeights : UpdateWeights(w)
    \/ UpdateWeightsWithCopy
    \/ \E k \in required_keys, v \in CallerWrites : WriteGivenDict(k, v)
    \/ \E k \in required_keys, v \in CallerWrites : WriteBreakdownWeights(k, v)
    \/ CalculateScore(1, << >>)
    \/ GetScoreBreakdown(1)

SpecCallers == InitRace /\ [][NextCallers]_vars

\* what calculate_score(1) and get_score_breakdown(1) return when the
\* tables are d and self.weights is the object at address w of heap h
ScoreWith(d, h, w) == calculate_score(get_domain_details(d, 1), h[w])
BreakdownWith(d, h, w) == get_score_breakdown(get_domain_details(d, 1), h[w])

\* C26: the stored weights change only through update_weights: writing to
\* the dict that was passed in, or to the 'weights' entry of a returned
\* breakdown, changes no later calculate_score or get_score_breakdown
\* result; and update_weights leaves the dict it was given as it was
C26_WeightsChangeOnlyByUpdate ==
    [][/\ ret'.op = "caller_writes" =>
             /\ ScoreWith(db', heap', self_weights') = ScoreWith(db, heap, self_weights)
             /\ BreakdownWith(db', heap', self_weights')
                   = BreakdownWith(db, heap, self_weights)
       /\ (ret'.op = "update_weights" /\ ret'.ok) => heap'["arg"] = ret'.given]_vars

\* C27: update_weights with a copy of the current weights leaves the score
\* of every record as it was, from the default weights as well as after
\* an earlier successful update, and a second such call stores the same
\* weights as the first
C27_UpdateWithCurrentIsNoOp ==
    [][(ret'.op = "update_weights" /\ ret'.given = heap[self_weights]) =>
          /\ ret'.ok
          /\ ScoreWith(db', heap', self_weights') = ScoreWith(db, heap, self_weights)
          /\ Normalized(heap'[self_weights']) = heap'[self_weights']]_vars

\* C28: with no SEO API key configured, SEOAnalyzer.analyze_domain returns
\* a metrics record for every name and never raises: every range drawn in
\* the mock generator is non-empty for the values drawn before it, and the
\* record has trust_flow <= citation_flow
C28_SeoMockNeverRaises ==
    /\ oth.pc \notin {"retry", "raised"}
    /\ "raised" \in DOMAIN oth.out => ~oth.out.raised
    /\ "trust_flow" \in DOMAIN oth.out => oth.out.trust_flow <= oth.out.citation_flow

(***************************************************************************)
(* app.py: the loop of run_discovery_process over the domains found.       *)
(***************************************************************************)
MaxDomains == 2

\* the list `domains` of lines 424-440: the names found, repeats included
DomainLists ==
    UNION {[1..n -> Names \cup OtherNames] : n \in 1..MaxDomains}

\* min_domain_authority and min_backlinks: no filter, and the defaults of
\* the sliders (app.py 123-124)
Thresholds == {<<0, 0>>, <<10, 10>>}

\* what SEOAnalyzer.analyze_domain hands the loop: a metrics dict, or the
\* ValueError of the mock generator
SeoOutcomes == [raised : {FALSE}, metrics : SeoInputs] \cup {[raised |-> TRUE]}

\* lines 413-447
D_Start(domains, t) ==
    /\ disc = NoDiscovery
    /\ disc' = [pc |-> "loop", domains |-> domains, i |-> 1, domain_id |-> 0,
                min_domain_authority |-> t[1], min_backlinks |-> t[2],
                added |-> {}, raised |-> {}, trail |-> << >>, score |-> << >>]
    /\ UNCHANGED <<db, heap, self_weights, ret, raceVars, mockVars, analyzed>>

\* lines 450-451: the stop flag is found set
D_Stop ==
    /\ disc.pc = "loop"
    /\ disc.i <= Len(disc.domains)
    /\ disc' = [disc EXCEPT !.pc = "done"]
    /\ UNCHANGED <<db, heap, self_weights, ret, raceVars, mockVars, analyzed>>

\* lines 449-463: the next domain; one already stored is skipped (459-460),
\* a new one is added (463)
D_Begin ==
    /\ disc.pc = "loop"
    /\ IF disc.i > Len(disc.domains)
       THEN /\ disc' = [disc EXCEPT !.pc = "done"]
            /\ db' = db
       ELSE LET name == disc.domains[disc.i]
                id == Len(db.domains) + 1
            IN  IF \E k \in DOMAIN db.domains : db.domains[k] = name
                THEN /\ disc' = [disc EXCEPT !.i = @ + 1]
                     /\ db' = db
                ELSE /\ db' = [db EXCEPT !.domains = Append(@, name)]
                     /\ disc' = [disc EXCEPT !.pc = "seo", !.domain_id = id,
                                             !.added = @ \cup {id},
                                             !.trail = (id :> << >>) @@ @]
    /\ UNCHANGED <<heap, self_weights, ret, raceVars, mockVars, analyzed>>

\* lines 466-473: the metrics, never an empty dict, are stored, and a domain
\* below a threshold is left at that (471-473); an exception ends the
\* iteration at lines 486-488
D_Seo ==
    /\ disc.pc = "seo"
    /\ \E o \in SeoOutcomes :
         IF o.raised
         THEN /\ disc' = [disc EXCEPT !.pc = "loop", !.i = @ + 1,
                                      !.raised = @ \cup {disc.domain_id}]
              /\ db' = db
         ELSE LET m == o.metrics
                  da == IF "domain_authority" \in DOMAIN m THEN m.domain_authority ELSE 0
                  bl == IF "backlinks" \in DOMAIN m THEN m.backlinks ELSE 0
                  low == da < disc.min_domain_authority \/ bl < disc.min_backlinks
              IN  /\ db' = [db EXCEPT !.seo =
                               (disc.domain_id :> StoreRow(SeoCols, m)) @@ @]
                  /\ disc' = [disc EXCEPT
                                !.trail[disc.domain_id] = Append(@, "seo"),
                                !.pc = IF low THEN "loop" ELSE "content",
                                !.i = IF low THEN @ + 1 ELSE @]
    /\ UNCHANGED <<heap, self_weights, ret, raceVars, mockVars, analyzed>>

\* lines 475-477: the analysis is never an empty dict
D_Content ==
    /\ disc.pc = "content"
    /\ \E a \in ContentInputs :
         db' = [db EXCEPT !.content =
                   (disc.domain_id :> StoreRow(ContentCols, a)) @@ @]
    /\ disc' = [disc EXCEPT !.trail[disc.domain_id] = Append(@, "content"),
                            !.pc = "score"]
    /\ UNCHANGED <<heap, self_weights, ret, raceVars, mockVars, analyzed>>

\* lines 480-481: calculate_score, then update_domain_score (database.py
\* 191-206)
D_Score ==
    /\ disc.pc = "score"
    /\ LET score == calculate_score(get_domain_details(db, disc.domain_id), Stored)
       IN  disc' = [disc EXCEPT
                      !.score = (disc.domain_id :> score.value) @@ @,
                      !.trail[disc.domain_id] = Append(@, "score"),
                      !.pc = "loop", !.i = @ + 1]
    /\ UNCHANGED <<db, heap, self_weights, ret, raceVars, mockVars, analyzed>>

\* the tables before the loop: empty, or techpro.com stored and analysed
InitDiscovery ==
    /\ db \in {[domains |-> << >>, seo |-> << >>, content |-> << >>]}
              \cup {AnalysedDb(m, a) : m \in RaceMetrics, a \in RaceAnalyses}
    /\ heap = [init |-> DefaultWeights, arg |-> << >>, spare |-> << >>]
    /\ self_weights = "init"
    /\ ret = [op |-> "init"]
    /\ ThreadsIdle
    /\ MockIdle
    /\ analyzed = NoAnalysis
    /\ disc = NoDiscovery

NextDiscovery ==
    \/ \E domains \in DomainLists, t \in Thresholds : D_Start(domains, t)
    \/ D_Stop
    \/ D_Begin
    \/ D_Seo
    \/ D_Content
    \/ D_Score

SpecDiscovery == InitDiscovery /\ [][NextDiscovery]_vars

\* C30: between iterations, every domain the loop added, unless an
\* exception occurred for it, has had its SEO metrics stored, then its
\* content analysis, then its score computed and written, in that order,
\* so none is left with the default score; a domain that was stored before
\* the loop is never analysed or scored
C30_AddedDomainsAreScored ==
    (disc # NoDiscovery /\ disc.pc \in {"loop", "done"}) =>
        /\ \A id \in disc.added \ disc.raised :
              /\ disc.trail[id] = <<"seo", "content", "score">>
              /\ id \in DOMAIN disc.score
              /\ id \in DOMAIN db.seo /\ id \in DOMAIN db.content
        /\ DOMAIN disc.trail = disc.added
        /\ DOMAIN disc.score \subseteq disc.added
=============================================================================
